---- MODULE Spec2Model ----
(***************************************************************************)
(* Verification engine of the WINDI Reader SDK: hash utilities, receipt   *)
(* validator, chain verifier and the verifyDocument / verifyBuffer state  *)
(* machine of WindiVerifyClient.                                          *)
(*                                                                         *)
(* Modelling conventions                                                   *)
(*  - JavaScript values are tagged records: Undefined, Null, Str(s),       *)
(*    Obj(<<[k |-> key, v |-> value], ...>>) (members in insertion order), *)
(*    Arr(<<...>>), Buf(bytes).                                            *)
(*  - SHA-256 is collision-free and symbolic: sha256(x) is the term        *)
(*    "sha256(x)"; string concatenation before hashing is real             *)
(*    concatenation, so H("ab" + "c") = H("a" + "bc") as in the code.      *)
(*  - Regular expressions and Date parsing are decided on the finite       *)
(*    universe of strings the inputs are drawn from.                       *)
(***************************************************************************)
EXTENDS Integers, Sequences, FiniteSets, TLC

VARIABLES strictMode, pc, op, input, result, metadata,
          fnArgs, fnResult, heap

vars == <<strictMode, pc, op, input, result, metadata, fnArgs, fnResult, heap>>

(* ------------------------------------------------------------------ *)
(* Bounds                                                              *)
(* ------------------------------------------------------------------ *)

\* Date.now() returns a value in 1..MaxTime.
MaxTime == 2

\* verifyMerkleRoot is applied to leaf lists of length 0..MaxLeaves.
MaxLeaves == 3

\* The odd leaf lists compared with their extension have length 3..MaxOddLeaves.
MaxOddLeaves == 5

(* ------------------------------------------------------------------ *)
(* JavaScript values                                                   *)
(* ------------------------------------------------------------------ *)

Undefined == [t |-> "undefined"]
Null == [t |-> "null"]
Str(s) == [t |-> "string", s |-> s]
Obj(members) == [t |-> "object", o |-> members]
Arr(elems) == [t |-> "array", a |-> elems]
Buf(bytes) == [t |-> "buffer", bytes |-> bytes]
Bool(b) == [t |-> "boolean", b |-> b]
Num(n) == [t |-> "number", n |-> n]

\* An optional model value: <<>> is null, <<x>> is x.
None == <<>>
Some(x) == <<x>>

\* ToBoolean(v) is false: the `!v` of the code is Falsy(v).
Falsy(v) ==
  \/ v.t \in {"undefined", "null"}
  \/ v.t = "string" /\ v.s = ""

HasKey(obj, key) ==
  /\ obj.t = "object"
  /\ \E i \in 1..Len(obj.o) : obj.o[i].k = key

\* Property read obj[key]: undefined for a missing member.
Get(obj, key) ==
  IF HasKey(obj, key)
    THEN LET i == CHOOSE j \in 1..Len(obj.o) : obj.o[j].k = key IN obj.o[i].v
    ELSE Undefined

(* ------------------------------------------------------------------ *)
(* Hash utilities                                                      *)
(* ------------------------------------------------------------------ *)

\* crypto.createHash('sha256').update(data).digest('hex') on the bytes `data`.
sha256(data) == "sha256(" \o data \o ")"

\* The upper-case spelling of a lower-case hex digest.
toUpperCase(digest) == "UPPER:" \o digest

GENESIS_HASH == "0000000000000000000000000000000000000000000000000000000000000000"

\* Object.keys(obj).sort() orders keys by code unit; the member names of the
\* model, in that order.
SortedKeyUniverse ==
  << "a", "actor", "b", "c", "chain_hash", "document_id", "governance_level",
     "hash", "isp_profile", "prev_hash", "sge_scores", "signature",
     "timestamp", "virtueReceipt", "virtue_receipt" >>

QuoteFrom_noEscape(s, i) == SubSeq(s, i, Len(s))

\* The characters of s from position i on, as JSON.stringify quotes them: a
\* double quote and a backslash are escaped with a backslash.
RECURSIVE QuoteFrom(_, _)
QuoteFrom(s, i) ==
  IF i > Len(s) THEN ""
  ELSE LET ch == SubSeq(s, i, i)
       IN (IF ch = "\"" THEN "\\\""
           ELSE IF ch = "\\" THEN "\\\\"
           ELSE ch) \o QuoteFrom(s, i + 1)

\* JSON.stringify of a string.
JSONstringifyString(s) == "\"" \o QuoteFrom(s, 1) \o "\""

Digits == << "0", "1", "2", "3", "4", "5", "6", "7", "8", "9" >>

\* JSON.stringify of a non-negative integer: its decimal digits.
RECURSIVE JSONstringifyNumber(_)
JSONstringifyNumber(n) ==
  IF n < 10 THEN Digits[n + 1]
  ELSE JSONstringifyNumber(n \div 10) \o Digits[(n % 10) + 1]

\* strs.join(sep), from element i on.
RECURSIVE JoinFrom(_, _, _)
JoinFrom(strs, sep, i) ==
  IF i > Len(strs) THEN ""
  ELSE IF i = Len(strs) THEN strs[i]
  ELSE strs[i] \o sep \o JoinFrom(strs, sep, i + 1)

JoinStrings(strs, sep) == JoinFrom(strs, sep, 1)

\* canonicalizeJSON(obj), as the text it contributes to the enclosing string:
\* JSON.stringify(undefined) is undefined, which `+` renders "undefined" and
\* Array.prototype.join renders "".
RECURSIVE canonicalizeJSON(_)

sortedPairsFrom_insertionOrder(obj, i) ==
  IF i > 1 THEN << >>
  ELSE [j \in 1..Len(obj.o) |->
          JSONstringifyString(obj.o[j].k) \o ":" \o canonicalizeJSON(obj.o[j].v)]

\* sortedKeys.map(key => JSON.stringify(key) + ':' + canonicalizeJSON(obj[key])),
\* from the i-th name of SortedKeyUniverse on.
RECURSIVE sortedPairsFrom(_, _)
sortedPairsFrom(obj, i) ==
  IF i > Len(SortedKeyUniverse) THEN << >>
  ELSE IF HasKey(obj, SortedKeyUniverse[i])
    THEN << JSONstringifyString(SortedKeyUniverse[i]) \o ":" \o
            canonicalizeJSON(Get(obj, SortedKeyUniverse[i])) >>
         \o sortedPairsFrom(obj, i + 1)
  ELSE sortedPairsFrom(obj, i + 1)

\* obj.map(canonicalizeJSON), from element i on, as join renders each element.
RECURSIVE mappedElementsFrom(_, _)
mappedElementsFrom(elems, i) ==
  IF i > Len(elems) THEN << >>
  ELSE << IF elems[i].t = "undefined" THEN "" ELSE canonicalizeJSON(elems[i]) >>
       \o mappedElementsFrom(elems, i + 1)

canonicalizeJSON(obj) ==
  CASE obj.t = "undefined" -> "undefined"
    [] obj.t = "null" -> "null"
    [] obj.t = "string" -> JSONstringifyString(obj.s)
    [] obj.t = "boolean" -> IF obj.b THEN "true" ELSE "false"
    [] obj.t = "number" -> JSONstringifyNumber(obj.n)
    [] obj.t = "array" -> "[" \o JoinStrings(mappedElementsFrom(obj.a, 1), ",") \o "]"
    [] obj.t = "object" -> "{" \o JoinStrings(sortedPairsFrom(obj, 1), ",") \o "}"

hashJSON(obj) == sha256(canonicalizeJSON(obj))

generateChainHash(prevHash, payload) == sha256(prevHash \o payload)

verifyChainLink_payloadOnly(prevHash, payload, expectedHash) ==
  sha256(payload) = expectedHash

verifyChainLink(prevHash, payload, expectedHash) ==
  LET computed == sha256(prevHash \o payload)
  IN computed = expectedHash

\* A pass that carries the last element of an odd level up unchanged.
RECURSIVE merkleNextLevel_promoteLast(_)
merkleNextLevel_promoteLast(level) ==
  IF Len(level) = 0 THEN << >>
  ELSE IF Len(level) = 1 THEN level
  ELSE << sha256(level[1] \o level[2]) >>
         \o merkleNextLevel_promoteLast(SubSeq(level, 3, Len(level)))

\* One pass of the for loop of verifyMerkleRoot: the next level of `level`.
RECURSIVE merkleNextLevel(_)
merkleNextLevel(level) ==
  IF Len(level) = 0 THEN << >>
  ELSE LET left == level[1]
           \* level[i + 1] || left: a missing or empty right sibling is replaced
           right == IF Len(level) >= 2 /\ level[2] # "" THEN level[2] ELSE left
           rest == IF Len(level) >= 2 THEN SubSeq(level, 3, Len(level)) ELSE << >>
       IN << sha256(left \o right) >> \o merkleNextLevel(rest)

\* The while loop of verifyMerkleRoot: reduce until one element remains.
RECURSIVE merkleReduce(_)
merkleReduce(level) ==
  IF Len(level) > 1 THEN merkleReduce(merkleNextLevel(level)) ELSE level

verifyMerkleRoot_hashSingle(hashes, expectedRoot) ==
  IF Len(hashes) = 0 THEN FALSE
  ELSE IF Len(hashes) = 1 THEN sha256(hashes[1] \o hashes[1]) = expectedRoot
  ELSE merkleReduce(hashes)[1] = expectedRoot

verifyMerkleRoot(hashes, expectedRoot) ==
  IF Len(hashes) = 0 THEN FALSE
  ELSE IF Len(hashes) = 1 THEN hashes[1] = expectedRoot
  ELSE merkleReduce(hashes)[1] = expectedRoot

(* ------------------------------------------------------------------ *)
(* WindiVerifyClient: enumerations, validator, chain verifier          *)
(* ------------------------------------------------------------------ *)

GovernanceLevel == {"HIGH", "MEDIUM", "LOW"}

VerificationStatus == {"VERIFIED", "INVALID", "PENDING", "ERROR", "NO_GOVERNANCE"}

\* The document contents (file or buffer bytes) of the model.
Contents == {"docA", "docB"}

\* Strings /^[a-f0-9]{64}$/ matches: the digests of the model's contents.
LowerHexDigests == {sha256(d) : d \in Contents}

\* The pattern without its i flag.
matchesSha256Pattern_lowercaseOnly(s) == s \in LowerHexDigests

\* /^[a-f0-9]{64}$/i.test(s): 64 hex characters in either case.
matchesSha256Pattern(s) ==
  s \in LowerHexDigests \cup {toUpperCase(h) : h \in LowerHexDigests}

\* Timestamps `new Date(ts)` parses (getTime() is not NaN).
ValidTimestamps == {"2026-01-19T12:00:00Z"}

dateIsNaN(ts) == ts \notin ValidTimestamps

_createEmptyResult ==
  [ verified |-> FALSE,
    status |-> "PENDING",
    documentHash |-> Null,
    virtueReceipt |-> Null,
    governanceLevel |-> Null,
    ispProfile |-> Null,
    chainIntact |-> FALSE,
    errors |-> << >>,
    warnings |-> << >>,
    verifiedAt |-> None ]

required == << "document_id", "hash", "timestamp", "governance_level" >>

\* The errors the loop over `required` pushes, in order.
missingFieldErrors_firstOnly(receipt) ==
  LET missing == SelectSeq(required, LAMBDA field : Falsy(Get(receipt, field)))
  IN IF Len(missing) = 0 THEN << >>
     ELSE << "Missing required field: " \o missing[1] >>

missingFieldErrors(receipt) ==
  LET missing == SelectSeq(required, LAMBDA field : Falsy(Get(receipt, field)))
  IN [i \in 1..Len(missing) |-> "Missing required field: " \o missing[i]]

_validateVirtueReceipt(receipt) ==
  IF Falsy(receipt) THEN << "Virtue Receipt is null or undefined" >>
  ELSE
    LET hash == Get(receipt, "hash")
        level == Get(receipt, "governance_level")
        timestamp == Get(receipt, "timestamp")
    IN missingFieldErrors(receipt)
       \o (IF ~Falsy(hash) /\ ~matchesSha256Pattern(hash.s)
             THEN << "Invalid hash format (expected SHA-256)" >> ELSE << >>)
       \o (IF ~Falsy(level) /\ level.s \notin GovernanceLevel
             THEN << "Invalid governance level: " \o level.s >> ELSE << >>)
       \o (IF ~Falsy(timestamp) /\ dateIsNaN(timestamp.s)
             THEN << "Invalid timestamp format" >> ELSE << >>)

chainPayloadObject_noLevel(receipt) ==
  Obj(<< [k |-> "document_id", v |-> Get(receipt, "document_id")],
         [k |-> "hash", v |-> Get(receipt, "hash")],
         [k |-> "timestamp", v |-> Get(receipt, "timestamp")] >>)

\* The object literal _verifyChainIntegrity canonicalizes.
chainPayloadObject(receipt) ==
  Obj(<< [k |-> "document_id", v |-> Get(receipt, "document_id")],
         [k |-> "hash", v |-> Get(receipt, "hash")],
         [k |-> "timestamp", v |-> Get(receipt, "timestamp")],
         [k |-> "governance_level", v |-> Get(receipt, "governance_level")] >>)

_verifyChainIntegrity_noCheck(receipt) == TRUE

_verifyChainIntegrity_requireChain(receipt) ==
  /\ ~Falsy(Get(receipt, "prev_hash"))
  /\ ~Falsy(Get(receipt, "chain_hash"))
  /\ verifyChainLink(Get(receipt, "prev_hash").s,
                     canonicalizeJSON(chainPayloadObject(receipt)),
                     Get(receipt, "chain_hash").s)

\* A chain check that fails a receipt carrying only one of the two digests.
_verifyChainIntegrity_eitherPresent(receipt) ==
  IF Falsy(Get(receipt, "prev_hash")) /\ Falsy(Get(receipt, "chain_hash"))
    THEN TRUE
  ELSE IF Falsy(Get(receipt, "prev_hash")) \/ Falsy(Get(receipt, "chain_hash"))
    THEN FALSE
  ELSE verifyChainLink(Get(receipt, "prev_hash").s,
                       canonicalizeJSON(chainPayloadObject(receipt)),
                       Get(receipt, "chain_hash").s)

_verifyChainIntegrity(receipt) ==
  IF Falsy(Get(receipt, "prev_hash")) \/ Falsy(Get(receipt, "chain_hash"))
    THEN TRUE
    ELSE LET payload == canonicalizeJSON(chainPayloadObject(receipt))
         IN verifyChainLink(Get(receipt, "prev_hash").s, payload,
                            Get(receipt, "chain_hash").s)

\* verifyReceipt(virtueReceipt): the object returned, or the TypeError the
\* property read in _verifyChainIntegrity throws on null and undefined.
verifyReceipt(virtueReceipt) ==
  IF virtueReceipt.t \in {"null", "undefined"}
    THEN [ thrown |-> TRUE,
           message |-> "Cannot read properties of " \o virtueReceipt.t
                         \o " (reading 'prev_hash')" ]
    ELSE [ thrown |-> FALSE,
           valid |-> /\ Len(_validateVirtueReceipt(virtueReceipt)) = 0
                     /\ _verifyChainIntegrity(virtueReceipt),
           errors |-> _validateVirtueReceipt(virtueReceipt),
           chainIntact |-> _verifyChainIntegrity(virtueReceipt),
           governanceLevel |-> Get(virtueReceipt, "governance_level"),
           timestamp |-> Get(virtueReceipt, "timestamp") ]

(* ------------------------------------------------------------------ *)
(* Metadata extraction                                                 *)
(* ------------------------------------------------------------------ *)

\* What a regular expression and the JSON.parse applied to its capture yield
\* on a document: no match, a match whose capture is no JSON, or the parsed value.
NoMatch == [matched |-> FALSE]
BadJSON == [matched |-> TRUE, json |-> None]
Parsed(value) == [matched |-> TRUE, json |-> Some(value)]

\* An envelope without a receipt member left for the later strategies.
envelopeBranch_fallThrough(doc) ==
  IF doc.envelope.matched /\ doc.envelope.json # None
       /\ doc.envelope.json[1].t # "null"
       /\ (~Falsy(Get(doc.envelope.json[1], "virtue_receipt"))
             \/ ~Falsy(Get(doc.envelope.json[1], "virtueReceipt")))
    THEN LET envelope == doc.envelope.json[1]
             snake == Get(envelope, "virtue_receipt")
         IN Some([virtueReceipt |->
                    IF ~Falsy(snake) THEN snake ELSE Get(envelope, "virtueReceipt")])
    ELSE None

\* The envelope branch of _extractMetadata: the returned metadata, or None
\* when the branch falls through (no match, JSON.parse throws, or the member
\* read on a parsed `null` throws; both are caught).
envelopeBranch(doc) ==
  IF doc.envelope.matched /\ doc.envelope.json # None
       /\ doc.envelope.json[1].t # "null"
    THEN LET envelope == doc.envelope.json[1]
             snake == Get(envelope, "virtue_receipt")
         IN Some([virtueReceipt |->
                    IF ~Falsy(snake) THEN snake ELSE Get(envelope, "virtueReceipt")])
    ELSE None

\* The "virtue_receipt": {...} branch of _extractMetadata.
receiptBranch(doc) ==
  IF doc.inline.matched /\ doc.inline.json # None
    THEN Some([virtueReceipt |-> doc.inline.json[1]])
    ELSE None

_extractPDFMetadata(doc) ==
  IF doc.pdfDict.matched /\ doc.pdfDict.hasVirtueReceipt /\ doc.pdfDict.json # None
    THEN Some([virtueReceipt |-> doc.pdfDict.json[1]])
  ELSE IF doc.xmp.matched /\ doc.xmp.json # None
    THEN Some([virtueReceipt |-> doc.xmp.json[1]])
  ELSE None

_extractMetadata(doc) ==
  IF envelopeBranch(doc) # None THEN envelopeBranch(doc)
  ELSE IF receiptBranch(doc) # None THEN receiptBranch(doc)
  ELSE IF doc.ext = ".pdf" THEN _extractPDFMetadata(doc)
  ELSE None

(* ------------------------------------------------------------------ *)
(* verifyDocument / verifyBuffer                                       *)
(* ------------------------------------------------------------------ *)

\* How a try block ends: `return result` inside it, its last statement, or a
\* throw; `result` is the result object as mutated so far.
Return(r) == [kind |-> "return", result |-> r]
End(r) == [kind |-> "end", result |-> r]
Throw(r, message) == [kind |-> "throw", result |-> r, message |-> message]

catchBlock_noMessage(r, message) ==
  [r EXCEPT !.status = "ERROR", !.errors = Append(@, "Verification error")]

\* The catch block of verifyDocument and verifyBuffer.
catchBlock(r, message) ==
  [r EXCEPT !.status = "ERROR",
            !.errors = Append(@, "Verification error: " \o message)]

hashDiffers_ignoreCase(receipt, documentHash) ==
  /\ Get(receipt, "hash") # documentHash
  /\ Get(receipt, "hash") # Str(toUpperCase(documentHash.s))

\* receipt.hash !== result.documentHash: strict, case-sensitive inequality.
hashDiffers(receipt, documentHash) == Get(receipt, "hash") # documentHash

\* A failed chain check handled as in lenient mode whatever the mode.
chainCheckFailed_ignoreStrict(r0, receipt, strict) ==
  End([r0 EXCEPT
         !.virtueReceipt = receipt,
         !.chainIntact = FALSE,
         !.errors = Append(@, "Chain integrity verification failed"),
         !.warnings = Append(@, "Chain verification failed but document hash valid"),
         !.verified = TRUE,
         !.status = "VERIFIED",
         !.governanceLevel = Get(receipt, "governance_level"),
         !.ispProfile = Get(receipt, "isp_profile")])

\* A failed chain check that adds no warning in lenient mode.
chainCheckFailed_noWarning(r0, receipt, strict) ==
  IF strict
    THEN Return([r0 EXCEPT
                   !.virtueReceipt = receipt,
                   !.chainIntact = FALSE,
                   !.errors = Append(@, "Chain integrity verification failed"),
                   !.status = "INVALID"])
    ELSE End([r0 EXCEPT
                !.virtueReceipt = receipt,
                !.chainIntact = FALSE,
                !.errors = Append(@, "Chain integrity verification failed"),
                !.verified = TRUE,
                !.status = "VERIFIED",
                !.governanceLevel = Get(receipt, "governance_level"),
                !.ispProfile = Get(receipt, "isp_profile")])

\* verifyDocument once _verifyChainIntegrity has returned false: the error is
\* pushed; strict mode returns INVALID, lenient mode adds the warning and
\* goes on to the success assignments.
chainCheckFailed(r0, receipt, strict) ==
  IF strict
    THEN Return([r0 EXCEPT
                   !.virtueReceipt = receipt,
                   !.chainIntact = FALSE,
                   !.errors = Append(@, "Chain integrity verification failed"),
                   !.status = "INVALID"])
    ELSE End([r0 EXCEPT
                !.virtueReceipt = receipt,
                !.chainIntact = FALSE,
                !.errors = Append(@, "Chain integrity verification failed"),
                !.warnings =
                  Append(@, "Chain verification failed but document hash valid"),
                !.verified = TRUE,
                !.status = "VERIFIED",
                !.governanceLevel = Get(receipt, "governance_level"),
                !.ispProfile = Get(receipt, "isp_profile")])

\* The hash comparison made before the structural validation.
verifyDocumentChecks_hashFirst(r0, receipt, strict) ==
  IF hashDiffers(receipt, r0.documentHash)
    THEN Return([r0 EXCEPT
                   !.virtueReceipt = receipt,
                   !.errors = Append(@, "Document hash does not match Virtue Receipt"),
                   !.status = "INVALID"])
  ELSE IF Len(_validateVirtueReceipt(receipt)) > 0
    THEN Return([r0 EXCEPT !.virtueReceipt = receipt,
                           !.errors = @ \o _validateVirtueReceipt(receipt),
                           !.status = "INVALID"])
  ELSE IF ~_verifyChainIntegrity(receipt)
    THEN chainCheckFailed(r0, receipt, strict)
  ELSE End([r0 EXCEPT !.virtueReceipt = receipt,
                      !.chainIntact = TRUE,
                      !.verified = TRUE,
                      !.status = "VERIFIED",
                      !.governanceLevel = Get(receipt, "governance_level"),
                      !.ispProfile = Get(receipt, "isp_profile")])

\* The statements after the hash has been stored and the receipt is known:
\* validation, hash comparison, chain check, success (verifyDocument).
verifyDocumentChecks(r0, receipt, strict) ==
  IF Len(_validateVirtueReceipt(receipt)) > 0
    THEN Return([r0 EXCEPT !.virtueReceipt = receipt,
                           !.errors = @ \o _validateVirtueReceipt(receipt),
                           !.status = "INVALID"])
  ELSE IF hashDiffers(receipt, r0.documentHash)
    THEN Return([r0 EXCEPT
                   !.virtueReceipt = receipt,
                   !.errors = Append(@, "Document hash does not match Virtue Receipt"),
                   !.status = "INVALID"])
  ELSE IF ~_verifyChainIntegrity(receipt)
    THEN chainCheckFailed(r0, receipt, strict)
  ELSE End([r0 EXCEPT !.virtueReceipt = receipt,
                      !.chainIntact = TRUE,
                      !.verified = TRUE,
                      !.status = "VERIFIED",
                      !.governanceLevel = Get(receipt, "governance_level"),
                      !.ispProfile = Get(receipt, "isp_profile")])

verifyDocumentAfterExtract_asError(r, meta, strict) ==
  IF meta = None
    THEN Return([r EXCEPT
                   !.status = "NO_GOVERNANCE",
                   !.errors = Append(@, "No WINDI governance metadata found in document")])
    ELSE verifyDocumentChecks(r, meta[1].virtueReceipt, strict)

\* verifyDocument from the resumption after `await this._extractMetadata`.
verifyDocumentAfterExtract(r, meta, strict) ==
  IF meta = None
    THEN Return([r EXCEPT
                   !.status = "NO_GOVERNANCE",
                   !.warnings = Append(@, "No WINDI governance metadata found in document")])
    ELSE verifyDocumentChecks(r, meta[1].virtueReceipt, strict)

\* The message of the TypeError hash.update(data) throws on a non-buffer.
InvalidArgMessage == "The \"data\" argument must be of type string or an instance of Buffer"

\* The governance level copied from the receipt before the checks are made.
verifyBufferTry_levelEarly(r0, buffer, receipt) ==
  IF buffer.t # "buffer" THEN Throw(r0, InvalidArgMessage)
  ELSE verifyDocumentChecks(
         [r0 EXCEPT !.documentHash = Str(sha256(buffer.bytes)),
                    !.governanceLevel = Get(receipt, "governance_level")],
         receipt, FALSE)

\* The try block of verifyBuffer.
verifyBufferTry(r0, buffer, receipt) ==
  IF buffer.t # "buffer" THEN Throw(r0, InvalidArgMessage)
  ELSE IF Len(_validateVirtueReceipt(receipt)) > 0
    THEN Return([r0 EXCEPT !.documentHash = Str(sha256(buffer.bytes)),
                           !.virtueReceipt = receipt,
                           !.errors = @ \o _validateVirtueReceipt(receipt),
                           !.status = "INVALID"])
  ELSE IF hashDiffers(receipt, Str(sha256(buffer.bytes)))
    THEN Return([r0 EXCEPT
                   !.documentHash = Str(sha256(buffer.bytes)),
                   !.virtueReceipt = receipt,
                   !.errors = Append(@, "Document hash does not match Virtue Receipt"),
                   !.status = "INVALID"])
  ELSE End([r0 EXCEPT !.documentHash = Str(sha256(buffer.bytes)),
                      !.virtueReceipt = receipt,
                      !.chainIntact = _verifyChainIntegrity(receipt),
                      !.verified = TRUE,
                      !.status = "VERIFIED",
                      !.governanceLevel = Get(receipt, "governance_level"),
                      !.ispProfile = Get(receipt, "isp_profile")])

\* A try statement without the catch block: the throw leaves the call.
settle_noCatch(outcome, now) ==
  CASE outcome.kind = "return" ->
         [pc |-> "returned", result |-> outcome.result]
    [] outcome.kind = "end" ->
         [pc |-> "returned",
          result |-> [outcome.result EXCEPT !.verifiedAt = Some(now)]]
    [] outcome.kind = "throw" ->
         [pc |-> "rejected", result |-> outcome.result]

\* What the caller gets once the try statement has run: the early return's
\* result as it is, or the result stamped with Date.now() after the try
\* statement (a throw passing through the catch block first). The call never
\* rejects: pc is "returned".
settle(outcome, now) ==
  CASE outcome.kind = "return" ->
         [pc |-> "returned", result |-> outcome.result]
    [] outcome.kind = "end" ->
         [pc |-> "returned",
          result |-> [outcome.result EXCEPT !.verifiedAt = Some(now)]]
    [] outcome.kind = "throw" ->
         [pc |-> "returned",
          result |-> [catchBlock(outcome.result, outcome.message)
                        EXCEPT !.verifiedAt = Some(now)]]

\* fs.readFile(absolutePath): the buffer, or a throw with the system error's message.
readFile(r, doc) ==
  IF doc.readable THEN End(r) ELSE Throw(r, doc.readError)

(* ------------------------------------------------------------------ *)
(* Inputs                                                              *)
(* ------------------------------------------------------------------ *)

\* A receipt object with the members of `f` that are not undefined.
MkReceipt(f) ==
  Obj(SelectSeq(
        << [k |-> "document_id", v |-> f.document_id],
           [k |-> "hash", v |-> f.hash],
           [k |-> "prev_hash", v |-> f.prev_hash],
           [k |-> "chain_hash", v |-> f.chain_hash],
           [k |-> "timestamp", v |-> f.timestamp],
           [k |-> "governance_level", v |-> f.governance_level],
           [k |-> "isp_profile", v |-> f.isp_profile] >>,
        LAMBDA m : m.v # Undefined))

\* The chain hash an issuer computes for the core fields of `f` on top of `prev`.
IssuedChainHash(prev, f) ==
  generateChainHash(prev, canonicalizeJSON(chainPayloadObject(MkReceipt(f))))

DocumentIds == {Undefined, Str("doc-1")}
Hashes ==
  {Undefined, Str("not-a-hash"), Str(toUpperCase(sha256("docA")))}
    \cup {Str(sha256(d)) : d \in Contents}
Timestamps == {Undefined, Str("not-a-date")} \cup {Str(ts) : ts \in ValidTimestamps}
Levels == {Undefined, Str("HIGH"), Str("LOW"), Str("ULTRA")}
PrevHashes == {Undefined, Str(GENESIS_HASH)}
Profiles == {Undefined, Str("isp-bank-01")}
WrongChainHash == sha256("some other link")

\* The choices a receipt of the model is built from; `chain` says whether the
\* chain hash is absent, wrong, or the one issued for the receipt's core fields.
ReceiptChoices ==
  [ document_id : DocumentIds, hash : Hashes, timestamp : Timestamps,
    governance_level : Levels, prev_hash : PrevHashes, isp_profile : Profiles,
    chain : {"absent", "wrong", "issued"} ]

ReceiptOf(f) ==
  LET core == [ document_id |-> f.document_id, hash |-> f.hash,
                timestamp |-> f.timestamp, governance_level |-> f.governance_level,
                prev_hash |-> f.prev_hash, isp_profile |-> f.isp_profile,
                chain_hash |-> Undefined ]
      prev == IF f.prev_hash = Undefined THEN GENESIS_HASH ELSE f.prev_hash.s
  IN MkReceipt([core EXCEPT !.chain_hash =
       CASE f.chain = "absent" -> Undefined
         [] f.chain = "wrong" -> Str(WrongChainHash)
         [] f.chain = "issued" -> Str(IssuedChainHash(prev, core))])

Receipts == {ReceiptOf(f) : f \in ReceiptChoices}

\* A receipt that verifies against the contents "docA", identified by `id`.
SampleReceipt(id) ==
  ReceiptOf([ document_id |-> Str(id), hash |-> Str(sha256("docA")),
              timestamp |-> Str("2026-01-19T12:00:00Z"),
              governance_level |-> Str("HIGH"), prev_hash |-> Str(GENESIS_HASH),
              isp_profile |-> Str("isp-bank-01"), chain |-> "issued" ])

Member(key, value) == [k |-> key, v |-> value]

\* Documents that differ in what the extraction strategies find.
StructureDocuments ==
  [ readable : {TRUE}, readError : {""}, bytes : {"docA"},
    ext : {".pdf", ".txt"},
    envelope : { NoMatch, BadJSON, Parsed(Null), Parsed(Obj(<< >>)),
                 Parsed(Obj(<< Member("virtue_receipt", SampleReceipt("in-envelope")) >>)),
                 Parsed(Obj(<< Member("virtueReceipt", SampleReceipt("in-envelope-camel")) >>)) },
    inline : { NoMatch, BadJSON, Parsed(SampleReceipt("inline")) },
    pdfDict : { [matched |-> FALSE],
                [matched |-> TRUE, hasVirtueReceipt |-> FALSE],
                [matched |-> TRUE, hasVirtueReceipt |-> TRUE, json |-> None],
                [matched |-> TRUE, hasVirtueReceipt |-> TRUE,
                 json |-> Some(SampleReceipt("in-pdf-dict"))] },
    xmp : { NoMatch, BadJSON, Parsed(Null), Parsed(SampleReceipt("in-xmp")) } ]

\* Documents with an envelope carrying each receipt of the model.
ReceiptDocuments ==
  [ readable : {TRUE}, readError : {""}, bytes : Contents, ext : {".txt"},
    envelope : { Parsed(Obj(<< Member("virtue_receipt", r) >>)) : r \in Receipts },
    inline : {NoMatch}, pdfDict : {[matched |-> FALSE]}, xmp : {NoMatch} ]

\* Paths fs.readFile fails on, with the message of the error it throws.
UnreadableDocuments ==
  [ readable : {FALSE},
    readError : { "ENOENT: no such file or directory", "EACCES: permission denied" },
    bytes : {"docA"}, ext : {".pdf"},
    envelope : {NoMatch}, inline : {NoMatch}, pdfDict : {[matched |-> FALSE]},
    xmp : {NoMatch} ]

Documents == StructureDocuments \cup ReceiptDocuments \cup UnreadableDocuments

Buffers == {Buf(d) : d \in Contents} \cup {Undefined}

BufferReceipts == Receipts \cup {Null, Undefined}

Times == 1..MaxTime

(* ------------------------------------------------------------------ *)
(* The verification calls of one client                                *)
(* ------------------------------------------------------------------ *)

\* The calls in flight on the client.
Calls == {"call1"}

NoInput == [none |-> TRUE]
NoCall == [fn |-> "none"]

\* new WindiVerifyClient(options): strictMode = options.strictMode || false.
InitClient ==
  /\ strictMode \in BOOLEAN
  /\ pc = [c \in Calls |-> "idle"]
  /\ op = [c \in Calls |-> "none"]
  /\ input = [c \in Calls |-> NoInput]
  /\ result = [c \in Calls |-> _createEmptyResult]
  /\ metadata = [c \in Calls |-> None]

Init ==
  /\ InitClient
  /\ fnArgs = NoCall
  /\ fnResult = FALSE
  /\ heap = << >>

\* verifyDocument(filePath) up to `await fs.readFile(absolutePath)`.
VerifyDocumentCall(c) ==
  /\ pc[c] = "idle"
  /\ pc' = [pc EXCEPT ![c] = "readFile"]
  /\ op' = [op EXCEPT ![c] = "verifyDocument"]
  /\ \E doc \in Documents : input' = [input EXCEPT ![c] = doc]
  /\ result' = [result EXCEPT ![c] = _createEmptyResult]
  /\ UNCHANGED <<heap, strictMode, metadata, fnArgs, fnResult>>

\* The read fails: the catch block runs and the call returns.
ReadFileRejected(c) ==
  /\ pc[c] = "readFile"
  /\ ~input[c].readable
  /\ \E now \in Times :
       LET done == settle(readFile(result[c], input[c]), now)
       IN /\ pc' = [pc EXCEPT ![c] = done.pc]
          /\ result' = [result EXCEPT ![c] = done.result]
  /\ UNCHANGED <<heap, strictMode, op, input, metadata, fnArgs, fnResult>>

\* The read succeeds: the hash is stored and _extractMetadata runs up to the
\* `await` on its promise.
ReadFileResolved(c) ==
  /\ pc[c] = "readFile"
  /\ input[c].readable
  /\ pc' = [pc EXCEPT ![c] = "extractMetadata"]
  /\ result' = [result EXCEPT ![c].documentHash = Str(sha256(input[c].bytes))]
  /\ metadata' = [metadata EXCEPT ![c] = _extractMetadata(input[c])]
  /\ UNCHANGED <<heap, strictMode, op, input, fnArgs, fnResult>>

\* verifyDocument from the metadata to its return.
VerifyDocumentFinish(c) ==
  /\ pc[c] = "extractMetadata"
  /\ \E now \in Times :
       LET done == settle(verifyDocumentAfterExtract(result[c], metadata[c], strictMode), now)
       IN /\ pc' = [pc EXCEPT ![c] = done.pc]
          /\ result' = [result EXCEPT ![c] = done.result]
  /\ UNCHANGED <<heap, strictMode, op, input, metadata, fnArgs, fnResult>>

\* verifyBuffer(buffer, virtueReceipt): synchronous, one step.
VerifyBuffer(c) ==
  /\ pc[c] = "idle"
  /\ op' = [op EXCEPT ![c] = "verifyBuffer"]
  /\ \E buffer \in Buffers, receipt \in BufferReceipts, now \in Times :
       LET done == settle(verifyBufferTry(_createEmptyResult, buffer, receipt), now)
       IN /\ input' = [input EXCEPT ![c] = [buffer |-> buffer, receipt |-> receipt]]
          /\ pc' = [pc EXCEPT ![c] = done.pc]
          /\ result' = [result EXCEPT ![c] = done.result]
  /\ UNCHANGED <<heap, strictMode, metadata, fnArgs, fnResult>>

Next ==
  \/ \E c \in Calls : VerifyDocumentCall(c)
  \/ \E c \in Calls : ReadFileRejected(c)
  \/ \E c \in Calls : ReadFileResolved(c)
  \/ \E c \in Calls : VerifyDocumentFinish(c)
  \/ \E c \in Calls : VerifyBuffer(c)

Spec == Init /\ [][Next]_vars

(* ------------------------------------------------------------------ *)
(* Calls of the chain and Merkle utilities                             *)
(* ------------------------------------------------------------------ *)

\* Previous hashes and payloads, chosen so that different splits of one
\* concatenation occur ("a" + "bc" and "ab" + "c").
ChainPrevHashes == {"", "a", "ab", GENESIS_HASH}
ChainPayloads == {"", "c", "bc", "{\"document_id\":\"doc-1\"}"}

ExpectedHashes ==
  {sha256(p \o q) : p \in ChainPrevHashes, q \in ChainPayloads}
    \cup {sha256(q) : q \in ChainPayloads}
    \cup {"", "not-a-hash"}

Leaves == {"", "x", "y"}

LeafLists == UNION {[1..n -> Leaves] : n \in 0..MaxLeaves}

ExpectedRoots ==
  Leaves \cup {sha256(l \o l) : l \in Leaves}
         \cup {merkleReduce(hashes)[1] : hashes \in {h \in LeafLists : Len(h) >= 2}}

InitHashUtils ==
  /\ strictMode = FALSE
  /\ pc = [c \in Calls |-> "idle"]
  /\ op = [c \in Calls |-> "none"]
  /\ input = [c \in Calls |-> NoInput]
  /\ result = [c \in Calls |-> _createEmptyResult]
  /\ metadata = [c \in Calls |-> None]
  /\ fnArgs = NoCall
  /\ fnResult = FALSE
  /\ heap = << >>

\* generateChainHash(prevHash, payload)
CallGenerateChainHash ==
  /\ fnArgs.fn = "none"
  /\ \E prevHash \in ChainPrevHashes, payload \in ChainPayloads :
       /\ fnArgs' = [fn |-> "generateChainHash", prevHash |-> prevHash,
                     payload |-> payload]
       /\ fnResult' = generateChainHash(prevHash, payload)
  /\ UNCHANGED <<heap, strictMode, pc, op, input, result, metadata>>

\* verifyChainLink(prevHash, payload, expectedHash) on any expected hash.
CallVerifyChainLink ==
  /\ fnArgs.fn = "none"
  /\ \E prevHash \in ChainPrevHashes, payload \in ChainPayloads,
        expectedHash \in ExpectedHashes :
       /\ fnArgs' = [fn |-> "verifyChainLink", prevHash |-> prevHash,
                     payload |-> payload, expectedHash |-> expectedHash,
                     issued |-> FALSE]
       /\ fnResult' = verifyChainLink(prevHash, payload, expectedHash)
  /\ UNCHANGED <<heap, strictMode, pc, op, input, result, metadata>>

\* verifyChainLink on the hash the preceding generateChainHash call returned,
\* for the same previous hash and payload.
CallVerifyIssuedLink ==
  /\ fnArgs.fn = "generateChainHash"
  /\ fnArgs' = [fn |-> "verifyChainLink", prevHash |-> fnArgs.prevHash,
                payload |-> fnArgs.payload, expectedHash |-> fnResult,
                issued |-> TRUE]
  /\ fnResult' = verifyChainLink(fnArgs.prevHash, fnArgs.payload, fnResult)
  /\ UNCHANGED <<heap, strictMode, pc, op, input, result, metadata>>

\* verifyMerkleRoot(hashes, expectedRoot)
CallVerifyMerkleRoot ==
  /\ fnArgs.fn = "none"
  /\ \E hashes \in LeafLists, expectedRoot \in ExpectedRoots :
       /\ fnArgs' = [fn |-> "verifyMerkleRoot", hashes |-> hashes,
                     expectedRoot |-> expectedRoot]
       /\ fnResult' = verifyMerkleRoot(hashes, expectedRoot)
  /\ UNCHANGED <<heap, strictMode, pc, op, input, result, metadata>>

NextHashUtils ==
  \/ CallGenerateChainHash
  \/ CallVerifyChainLink
  \/ CallVerifyIssuedLink
  \/ CallVerifyMerkleRoot

SpecHashUtils == InitHashUtils /\ [][NextHashUtils]_vars

(* ------------------------------------------------------------------ *)
(* JSON.parse, and canonicalizeJSON / hashJSON applied to JSON values   *)
(* ------------------------------------------------------------------ *)

\* An object or array of the JSON values has at most MaxMembers members.
MaxMembers == 2

\* The character of text at position i ("" past the end).
Ch(text, i) == IF i >= 1 /\ i <= Len(text) THEN SubSeq(text, i, i) ELSE ""

StartsWith(text, i, word) ==
  /\ i + Len(word) - 1 <= Len(text)
  /\ SubSeq(text, i, i + Len(word) - 1) = word

SyntaxError == [ok |-> FALSE]
ParsedAt(value, next) == [ok |-> TRUE, v |-> value, next |-> next]

IsDigit(ch) == \E d \in 1..10 : Digits[d] = ch
DigitValue(ch) == (CHOOSE d \in 1..10 : Digits[d] = ch) - 1

\* obj[key] = value while parsing: a repeated key keeps its place and takes
\* the later value.
SetMember(members, key, value) ==
  IF \E i \in 1..Len(members) : members[i].k = key
    THEN [i \in 1..Len(members) |->
            IF members[i].k = key THEN [k |-> key, v |-> value] ELSE members[i]]
    ELSE Append(members, [k |-> key, v |-> value])

\* The characters of a JSON string from position i (after the opening quote)
\* up to the closing quote; acc is the string read so far.
RECURSIVE parseStringChars(_, _, _)
parseStringChars(text, i, acc) ==
  LET ch == Ch(text, i)
  IN IF ch = "" THEN SyntaxError
     ELSE IF ch = "\"" THEN ParsedAt(acc, i + 1)
     ELSE IF ch = "\\"
       THEN IF Ch(text, i + 1) \in {"\"", "\\"}
              THEN parseStringChars(text, i + 2, acc \o Ch(text, i + 1))
              ELSE SyntaxError
     ELSE parseStringChars(text, i + 1, acc \o ch)

\* The digits of a JSON number from position i; acc is the value so far.
RECURSIVE parseDigits(_, _, _)
parseDigits(text, i, acc) ==
  IF IsDigit(Ch(text, i))
    THEN parseDigits(text, i + 1, 10 * acc + DigitValue(Ch(text, i)))
    ELSE ParsedAt(Num(acc), i)

RECURSIVE parseValue(_, _)
RECURSIVE parseElements(_, _, _)
RECURSIVE parseMembers(_, _, _)

\* The elements of an array from position i; acc holds those already read.
parseElements(text, i, acc) ==
  LET r == parseValue(text, i)
  IN IF ~r.ok THEN SyntaxError
     ELSE IF Ch(text, r.next) = ","
       THEN parseElements(text, r.next + 1, Append(acc, r.v))
     ELSE IF Ch(text, r.next) = "]"
       THEN ParsedAt(Arr(Append(acc, r.v)), r.next + 1)
     ELSE SyntaxError

\* The members of an object from position i; acc holds those already read.
parseMembers(text, i, acc) ==
  IF Ch(text, i) # "\"" THEN SyntaxError
  ELSE LET key == parseStringChars(text, i + 1, "")
       IN IF ~key.ok THEN SyntaxError
          ELSE IF Ch(text, key.next) # ":" THEN SyntaxError
          ELSE LET r == parseValue(text, key.next + 1)
               IN IF ~r.ok THEN SyntaxError
                  ELSE IF Ch(text, r.next) = ","
                    THEN parseMembers(text, r.next + 1,
                                      SetMember(acc, key.v, r.v))
                  ELSE IF Ch(text, r.next) = "}"
                    THEN ParsedAt(Obj(SetMember(acc, key.v, r.v)), r.next + 1)
                  ELSE SyntaxError

\* The JSON value that starts at position i of text (no white space).
parseValue(text, i) ==
  LET ch == Ch(text, i)
  IN IF StartsWith(text, i, "null") THEN ParsedAt(Null, i + 4)
     ELSE IF StartsWith(text, i, "true") THEN ParsedAt(Bool(TRUE), i + 4)
     ELSE IF StartsWith(text, i, "false") THEN ParsedAt(Bool(FALSE), i + 5)
     ELSE IF IsDigit(ch) THEN parseDigits(text, i, 0)
     ELSE IF ch = "\""
       THEN LET r == parseStringChars(text, i + 1, "")
            IN IF r.ok THEN ParsedAt(Str(r.v), r.next) ELSE SyntaxError
     ELSE IF ch = "["
       THEN IF Ch(text, i + 1) = "]" THEN ParsedAt(Arr(<< >>), i + 2)
            ELSE parseElements(text, i + 1, << >>)
     ELSE IF ch = "{"
       THEN IF Ch(text, i + 1) = "}" THEN ParsedAt(Obj(<< >>), i + 2)
            ELSE parseMembers(text, i + 1, << >>)
     ELSE SyntaxError

\* JSON.parse(text): Some(value), or None when it throws a SyntaxError.
JSONparse(text) ==
  LET r == parseValue(text, 1)
  IN IF r.ok /\ r.next = Len(text) + 1 THEN Some(r.v) ELSE None

\* The sequences <<x1, ..., xn>> with xj in sets[j], from index i on.
RECURSIVE ProductFrom(_, _)
ProductFrom(sets, i) ==
  IF i > Len(sets) THEN {<< >>}
  ELSE {<< x >> \o rest : x \in sets[i], rest \in ProductFrom(sets, i + 1)}

\* The sequences of at most MaxMembers distinct names.
KeySequences(names) ==
  {ks \in UNION {[1..n -> names] : n \in 0..MaxMembers} :
     \A i, j \in 1..Len(ks) : i # j => ks[i] # ks[j]}

\* The objects whose members are named by names and valued in values.
ObjectsOver(names, values) ==
  UNION {{Obj([i \in 1..Len(ks) |-> [k |-> ks[i], v |-> vs[i]]]) :
            vs \in [1..Len(ks) -> values]} : ks \in KeySequences(names)}

ArraysOver(values) ==
  {Arr(es) : es \in UNION {[1..n -> values] : n \in 0..MaxMembers}}

JSONPrimitives == {Null, Bool(TRUE), Num(42), Str("a\"b\\c")}

\* Objects nested inside other values, and arrays that hold one.
InnerObjects == ObjectsOver({"a", "b"}, {Str("")})

InnerValues ==
  JSONPrimitives \cup InnerObjects
    \cup {Arr(<< o >>) : o \in {x \in InnerObjects : Len(x.o) = 2}}

\* The JSON values canonicalizeJSON and hashJSON are applied to.
JSONValues ==
  JSONPrimitives
    \cup ObjectsOver({"a", "b", "c"}, InnerValues)
    \cup ArraysOver(InnerValues)

\* The values equal to v up to the order of the keys of its objects, at every
\* depth; the order of array elements is kept.
RECURSIVE Reorderings(_)
Reorderings(v) ==
  CASE v.t = "object" ->
         UNION {
           {Obj([i \in 1..Len(v.o) |-> [k |-> v.o[p[i]].k, v |-> vs[i]]]) :
              vs \in ProductFrom([i \in 1..Len(v.o) |-> Reorderings(v.o[p[i]].v)], 1)}
           : p \in Permutations(1..Len(v.o))}
    [] v.t = "array" ->
         {Arr(es) : es \in ProductFrom([i \in 1..Len(v.a) |-> Reorderings(v.a[i])], 1)}
    [] OTHER -> {v}

\* canonicalizeJSON(obj)
CallCanonicalizeJSON ==
  /\ fnArgs.fn = "none"
  /\ \E obj \in JSONValues :
       /\ fnArgs' = [fn |-> "canonicalizeJSON", obj |-> obj]
       /\ fnResult' = canonicalizeJSON(obj)
  /\ UNCHANGED <<heap, strictMode, pc, op, input, result, metadata>>

\* canonicalizeJSON on a value equal to the preceding call's up to key order.
CallCanonicalizeReordered ==
  /\ fnArgs.fn = "canonicalizeJSON"
  /\ \E obj \in Reorderings(fnArgs.obj) :
       /\ fnArgs' = [fn |-> "canonicalizeJSON(reordered)", obj |-> obj,
                     reorderingOf |-> fnArgs.obj, earlier |-> fnResult]
       /\ fnResult' = canonicalizeJSON(obj)
  /\ UNCHANGED <<heap, strictMode, pc, op, input, result, metadata>>

\* canonicalizeJSON(JSON.parse(text)) on the text the preceding call returned.
CallCanonicalizeParsed ==
  /\ fnArgs.fn = "canonicalizeJSON"
  /\ LET parsed == JSONparse(fnResult)
     IN /\ fnArgs' = [fn |-> "canonicalizeJSON(JSON.parse)", text |-> fnResult,
                      parsed |-> parsed, original |-> fnArgs.obj]
        /\ fnResult' = IF parsed = None THEN "SyntaxError"
                       ELSE canonicalizeJSON(parsed[1])
  /\ UNCHANGED <<heap, strictMode, pc, op, input, result, metadata>>

\* hashJSON(obj)
CallHashJSON ==
  /\ fnArgs.fn = "none"
  /\ \E obj \in JSONValues :
       /\ fnArgs' = [fn |-> "hashJSON", obj |-> obj]
       /\ fnResult' = hashJSON(obj)
  /\ UNCHANGED <<heap, strictMode, pc, op, input, result, metadata>>

\* hashJSON on a value equal to the preceding call's up to key order.
CallHashReordered ==
  /\ fnArgs.fn = "hashJSON"
  /\ \E obj \in Reorderings(fnArgs.obj) :
       /\ fnArgs' = [fn |-> "hashJSON(reordered)", obj |-> obj,
                     reorderingOf |-> fnArgs.obj, earlier |-> fnResult]
       /\ fnResult' = hashJSON(obj)
  /\ UNCHANGED <<heap, strictMode, pc, op, input, result, metadata>>

NextCanonicalJSON ==
  \/ CallCanonicalizeJSON
  \/ CallCanonicalizeReordered
  \/ CallCanonicalizeParsed
  \/ CallHashJSON
  \/ CallHashReordered

SpecCanonicalJSON == InitHashUtils /\ [][NextCanonicalJSON]_vars

(* ------------------------------------------------------------------ *)
(* Canonicalization utilities                                          *)
(* ------------------------------------------------------------------ *)

\* Field values are strings of at most MaxTextLen characters (and the
\* documented examples).
MaxTextLen == 4

LowerCaseLetters == "abcdefghijklmnopqrstuvwxyz"
UpperCaseLetters == "ABCDEFGHIJKLMNOPQRSTUVWXYZ"

\* A character \s matches.
IsWhitespace(ch) == ch \in {" ", "\t", "\n"}

\* s.trim()
RECURSIVE trimStart(_)
trimStart(s) ==
  IF Len(s) > 0 /\ IsWhitespace(SubSeq(s, 1, 1))
    THEN trimStart(SubSeq(s, 2, Len(s))) ELSE s

RECURSIVE trimEnd(_)
trimEnd(s) ==
  IF Len(s) > 0 /\ IsWhitespace(SubSeq(s, Len(s), Len(s)))
    THEN trimEnd(SubSeq(s, 1, Len(s) - 1)) ELSE s

trim(s) == trimEnd(trimStart(s))

\* s.replace(/\s+/g, " "), from position i on.
RECURSIVE collapseWhitespaceFrom(_, _)
collapseWhitespaceFrom(s, i) ==
  IF i > Len(s) THEN ""
  ELSE IF IsWhitespace(Ch(s, i))
    THEN (IF IsWhitespace(Ch(s, i - 1)) THEN "" ELSE " ")
           \o collapseWhitespaceFrom(s, i + 1)
  ELSE Ch(s, i) \o collapseWhitespaceFrom(s, i + 1)

\* s.replace(/[chars]/g, ""), from position i on.
RECURSIVE removeAllFrom(_, _, _)
removeAllFrom(s, chars, i) ==
  IF i > Len(s) THEN ""
  ELSE (IF Ch(s, i) \in chars THEN "" ELSE Ch(s, i))
         \o removeAllFrom(s, chars, i + 1)

\* s.lastIndexOf(ch): the 0-based index of the last ch of s, -1 without one.
lastIndexOf(s, ch) ==
  IF \E i \in 1..Len(s) : Ch(s, i) = ch
    THEN (CHOOSE i \in 1..Len(s) :
            /\ Ch(s, i) = ch
            /\ \A j \in (i + 1)..Len(s) : Ch(s, j) # ch) - 1
    ELSE -1

\* s.replace(ch, by): the first ch of s replaced.
replaceFirst(s, ch, by) ==
  IF \E i \in 1..Len(s) : Ch(s, i) = ch
    THEN LET i == CHOOSE k \in 1..Len(s) :
                    /\ Ch(s, k) = ch
                    /\ \A j \in 1..(k - 1) : Ch(s, j) # ch
         IN SubSeq(s, 1, i - 1) \o by \o SubSeq(s, i + 1, Len(s))
    ELSE s

toUpperCaseChar(ch) ==
  IF \E i \in 1..26 : SubSeq(LowerCaseLetters, i, i) = ch
    THEN LET i == CHOOSE k \in 1..26 : SubSeq(LowerCaseLetters, k, k) = ch
         IN SubSeq(UpperCaseLetters, i, i)
    ELSE ch

\* s.toUpperCase(), from position i on.
RECURSIVE toUpperCaseFrom(_, _)
toUpperCaseFrom(s, i) ==
  IF i > Len(s) THEN ""
  ELSE toUpperCaseChar(Ch(s, i)) \o toUpperCaseFrom(s, i + 1)

\* s.normalize("NFKC"), from position i on: the feminine ordinal indicator
\* (compatibility form of "a") is the compatibility character of the model,
\* every other character of the model is its own normal form.
RECURSIVE normalizeNFKCFrom(_, _)
normalizeNFKCFrom(s, i) ==
  IF i > Len(s) THEN ""
  ELSE (IF Ch(s, i) = "ª" THEN "a" ELSE Ch(s, i))
         \o normalizeNFKCFrom(s, i + 1)

\* String(v ?? ""): "" for null and undefined.
StringOrEmpty(v) ==
  CASE v.t \in {"undefined", "null"} -> ""
    [] v.t = "string" -> v.s
    [] v.t = "number" -> JSONstringifyNumber(v.n)

canonText(s) == collapseWhitespaceFrom(trim(StringOrEmpty(s)), 1)

canonTextUpper(s) == toUpperCaseFrom(normalizeNFKCFrom(canonText(s), 1), 1)

canonIBAN_keepHyphens(iban) ==
  toUpperCaseFrom(removeAllFrom(canonText(iban), {" ", "\t", "\n"}, 1), 1)

canonIBAN(iban) ==
  toUpperCaseFrom(removeAllFrom(canonText(iban), {" ", "\t", "\n", "-"}, 1), 1)

shelfPaytoIban(iban) == "PAYTO|IBAN|" \o canonIBAN(iban)

\* canonCurrency of src/canonicalization.js.
canonCurrency(cur) == canonTextUpper(cur)

\* CURRENCY_MAP of the canonicalization fragment with the currency table.
CURRENCY_MAP ==
  ("€" :> "EUR") @@ ("EURO" :> "EUR") @@ ("EUR" :> "EUR")
    @@ ("$" :> "USD") @@ ("DOLLAR" :> "USD") @@ ("USD" :> "USD")
    @@ ("£" :> "GBP") @@ ("POUND" :> "GBP") @@ ("GBP" :> "GBP")
    @@ ("¥" :> "JPY") @@ ("YEN" :> "JPY") @@ ("JPY" :> "JPY")
    @@ ("CHF" :> "CHF") @@ ("FRANC" :> "CHF")

\* canonCurrency of the fragment with the currency table:
\* CURRENCY_MAP[upper] || upper (no inherited property has an upper-case name).
canonCurrency_part002(cur) ==
  LET upper == canonTextUpper(cur)
  IN IF upper \in DOMAIN CURRENCY_MAP THEN CURRENCY_MAP[upper] ELSE upper

\* The value of a string of decimal digits.
RECURSIVE DigitsValue(_)
DigitsValue(ds) ==
  IF Len(ds) = 0 THEN 0
  ELSE 10 * DigitsValue(SubSeq(ds, 1, Len(ds) - 1))
         + DigitValue(SubSeq(ds, Len(ds), Len(ds)))

\* The longest run of decimal digits of s that starts at position i.
RECURSIVE digitRun(_, _)
digitRun(s, i) ==
  IF IsDigit(Ch(s, i)) THEN Ch(s, i) \o digitRun(s, i + 1) ELSE ""

RECURSIVE PowerOfTen(_)
PowerOfTen(n) == IF n = 0 THEN 1 ELSE 10 * PowerOfTen(n - 1)

NaN == [nan |-> TRUE]

\* Number.parseFloat(s): the longest prefix "digits[.digits]" or ".digits"
\* after leading white space (the strings of the model hold no sign, no
\* exponent and no "Infinity"); the value is digits / 10^scale.
parseFloat(s) ==
  LET t == trimStart(s)
      whole == digitRun(t, 1)
      fraction == IF Ch(t, Len(whole) + 1) = "."
                    THEN digitRun(t, Len(whole) + 2) ELSE ""
  IN IF Len(whole) = 0 /\ Len(fraction) = 0 THEN NaN
     ELSE [nan |-> FALSE, digits |-> DigitsValue(whole \o fraction),
           scale |-> Len(fraction)]

\* Math.round(num * 100) = floor(num * 100 + 1/2), for num >= 0.
roundCents(num) ==
  (2 * 100 * num.digits + PowerOfTen(num.scale)) \div (2 * PowerOfTen(num.scale))

\* (cents / 100).toFixed(2)
toFixed2(cents) ==
  JSONstringifyNumber(cents \div 100) \o "."
    \o Digits[((cents \div 10) % 10) + 1] \o Digits[(cents % 10) + 1]

\* The tail of both canonAmount2: parse, round to cents, format.
formatAmount(normalized) ==
  LET num == parseFloat(normalized)
  IN IF num.nan THEN "0.00" ELSE toFixed2(roundCents(num))

\* canonAmount2 of src/canonicalization.js.
canonAmount2(amount) ==
  LET raw == canonText(Str(StringOrEmpty(amount)))
  IN IF raw = "" THEN "0.00"
     ELSE formatAmount(replaceFirst(removeAllFrom(raw, {"."}, 1), ",", "."))

\* canonAmount2 of the fragment with the currency table.
canonAmount2_part002(amount) ==
  LET raw0 == canonText(Str(StringOrEmpty(amount)))
      raw == removeAllFrom(raw0, {"€", "$", "£", "¥", " ", "\t", "\n"}, 1)
      lastComma == lastIndexOf(raw, ",")
      lastDot == lastIndexOf(raw, ".")
  IN IF raw0 = "" THEN "0.00"
     ELSE IF raw = "" THEN "0.00"
     ELSE IF lastComma > lastDot
       THEN formatAmount(replaceFirst(removeAllFrom(raw, {"."}, 1), ",", "."))
     ELSE formatAmount(removeAllFrom(raw, {","}, 1))

\* The two canonicalization modules of the repository.
Implementations == {"src/canonicalization.js", "part_002"}

canonCurrencyOf(impl, cur) ==
  IF impl = "part_002" THEN canonCurrency_part002(cur) ELSE canonCurrency(cur)

canonAmount2Of(impl, amount) ==
  IF impl = "part_002" THEN canonAmount2_part002(amount) ELSE canonAmount2(amount)

shelfAmountDec2(impl, amount) == "AMOUNT|DEC|" \o canonAmount2Of(impl, amount)

shelfCurrencyIso(impl, cur) == "CURRENCY|ISO4217|" \o canonCurrencyOf(impl, cur)

\* The strings of at most n characters of alphabet.
RECURSIVE StringsUpTo(_, _)
StringsUpTo(alphabet, n) ==
  IF n = 0 THEN {""}
  ELSE LET shorter == StringsUpTo(alphabet, n - 1)
       IN shorter \cup {s \o ch : s \in shorter, ch \in alphabet}

IbanInputs ==
  {Str(s) : s \in StringsUpTo({"d", "E", "8", " ", "-"}, MaxTextLen)}
    \cup {Str("DE89 3704 0044 0532 0130 00"), Str("de89-3704\t0044\n"),
          Null, Undefined}

CurrencyInputs ==
  {Str(s) : s \in StringsUpTo({"e", "U", "r", "€", " "}, MaxTextLen)}
    \cup {Str(s) : s \in {"Euro", " euro ", "$", "dollar", "Usd", "£", "Pound",
                          "gbp", "¥", "yen", "JPY", "chf", "Franc", "sek",
                          "frªnc", " chf\t"}}
    \cup {Null, Undefined}

AmountInputs ==
  {Str(prefix \o body) :
     prefix \in {"", "€ ", "$"},
     body \in StringsUpTo({"1", "9", ",", "."}, MaxTextLen)}
    \cup {Str(s) : s \in {"€ 1.234,50", "1,234.50", "1.234,50", "1234.5",
                          " 12 ", "abc"}}
    \cup {Null, Undefined, Num(12)}

\* canonIBAN(iban)
CallCanonIBAN ==
  /\ fnArgs.fn = "none"
  /\ \E iban \in IbanInputs :
       /\ fnArgs' = [fn |-> "canonIBAN", iban |-> iban]
       /\ fnResult' = canonIBAN(iban)
  /\ UNCHANGED <<heap, strictMode, pc, op, input, result, metadata>>

\* canonIBAN on the string the preceding canonIBAN call returned.
CallCanonIBANAgain ==
  /\ fnArgs.fn = "canonIBAN"
  /\ fnArgs' = [fn |-> "canonIBAN(canonIBAN)", iban |-> Str(fnResult),
                original |-> fnArgs.iban]
  /\ fnResult' = canonIBAN(Str(fnResult))
  /\ UNCHANGED <<heap, strictMode, pc, op, input, result, metadata>>

\* shelfPaytoIban on the string the preceding canonIBAN call returned.
CallShelfPaytoIbanCanonical ==
  /\ fnArgs.fn = "canonIBAN"
  /\ fnArgs' = [fn |-> "shelfPaytoIban(canonIBAN)", iban |-> Str(fnResult),
                original |-> fnArgs.iban]
  /\ fnResult' = shelfPaytoIban(Str(fnResult))
  /\ UNCHANGED <<heap, strictMode, pc, op, input, result, metadata>>

\* shelfPaytoIban on the raw value, after shelfPaytoIban on its canonical form.
CallShelfPaytoIban ==
  /\ fnArgs.fn = "shelfPaytoIban(canonIBAN)"
  /\ fnArgs' = [fn |-> "shelfPaytoIban", iban |-> fnArgs.original,
                canonical |-> fnArgs.iban.s, earlier |-> fnResult]
  /\ fnResult' = shelfPaytoIban(fnArgs.original)
  /\ UNCHANGED <<heap, strictMode, pc, op, input, result, metadata>>

\* canonCurrency(cur), of either module
CallCanonCurrency ==
  /\ fnArgs.fn = "none"
  /\ \E impl \in Implementations, cur \in CurrencyInputs :
       /\ fnArgs' = [fn |-> "canonCurrency", impl |-> impl, cur |-> cur]
       /\ fnResult' = canonCurrencyOf(impl, cur)
  /\ UNCHANGED <<heap, strictMode, pc, op, input, result, metadata>>

\* canonCurrency on the string the preceding canonCurrency call returned.
CallCanonCurrencyAgain ==
  /\ fnArgs.fn = "canonCurrency"
  /\ fnArgs' = [fn |-> "canonCurrency(canonCurrency)", impl |-> fnArgs.impl,
                cur |-> Str(fnResult), original |-> fnArgs.cur]
  /\ fnResult' = canonCurrencyOf(fnArgs.impl, Str(fnResult))
  /\ UNCHANGED <<heap, strictMode, pc, op, input, result, metadata>>

\* shelfCurrencyIso(cur), of either module
CallShelfCurrencyIso ==
  /\ fnArgs.fn = "none"
  /\ \E impl \in Implementations, cur \in CurrencyInputs :
       /\ fnArgs' = [fn |-> "shelfCurrencyIso", impl |-> impl, cur |-> cur]
       /\ fnResult' = shelfCurrencyIso(impl, cur)
  /\ UNCHANGED <<heap, strictMode, pc, op, input, result, metadata>>

\* canonAmount2(amount), of either module
CallCanonAmount2 ==
  /\ fnArgs.fn = "none"
  /\ \E impl \in Implementations, amount \in AmountInputs :
       /\ fnArgs' = [fn |-> "canonAmount2", impl |-> impl, amount |-> amount]
       /\ fnResult' = canonAmount2Of(impl, amount)
  /\ UNCHANGED <<heap, strictMode, pc, op, input, result, metadata>>

\* shelfAmountDec2(amount), of either module
CallShelfAmountDec2 ==
  /\ fnArgs.fn = "none"
  /\ \E impl \in Implementations, amount \in AmountInputs :
       /\ fnArgs' = [fn |-> "shelfAmountDec2", impl |-> impl, amount |-> amount]
       /\ fnResult' = shelfAmountDec2(impl, amount)
  /\ UNCHANGED <<heap, strictMode, pc, op, input, result, metadata>>

NextCanon ==
  \/ CallCanonIBAN
  \/ CallCanonIBANAgain
  \/ CallShelfPaytoIbanCanonical
  \/ CallShelfPaytoIban
  \/ CallCanonCurrency
  \/ CallCanonCurrencyAgain
  \/ CallShelfCurrencyIso
  \/ CallCanonAmount2
  \/ CallShelfAmountDec2

SpecCanon == InitHashUtils /\ [][NextCanon]_vars

(* ------------------------------------------------------------------ *)
(* The validator and the chain verifier applied to receipts            *)
(* ------------------------------------------------------------------ *)

\* Receipts whose required fields are absent, empty, malformed or valid.
ValidatorReceipts ==
  {MkReceipt([ document_id |-> id, hash |-> h, timestamp |-> ts,
               governance_level |-> level, prev_hash |-> Undefined,
               chain_hash |-> Undefined, isp_profile |-> Undefined ]) :
     id \in DocumentIds \cup {Str("")},
     h \in Hashes \cup {Str("")},
     ts \in Timestamps \cup {Str("")},
     level \in Levels \cup {Str(""), Str("MEDIUM")}}

ReceiptFields ==
  { "document_id", "hash", "timestamp", "governance_level", "prev_hash",
    "chain_hash", "isp_profile", "sge_scores", "actor", "signature" }

\* The values a field of a receipt is changed to.
FieldValues(field) ==
  CASE field = "document_id" -> DocumentIds \cup {Str("doc-2")}
    [] field = "hash" -> Hashes
    [] field = "timestamp" -> Timestamps \cup {Str("2026-01-20T08:30:00Z")}
    [] field = "governance_level" -> Levels
    [] field = "prev_hash" -> PrevHashes \cup {Str(sha256("previous link"))}
    [] field = "chain_hash" -> {Undefined, Str(WrongChainHash)}
    [] field = "isp_profile" -> Profiles \cup {Str("isp-bank-02")}
    [] field = "sge_scores" -> {Undefined, Obj(<< Member("a", Num(42)) >>)}
    [] field = "actor" -> {Undefined, Str("alice"), Str("mallory")}
    [] field = "signature" -> {Undefined, Str("sig-1"), Str("sig-2")}

\* The receipt with receipt[field] = value (the member deleted for undefined).
WithField(receipt, field, value) ==
  IF value = Undefined
    THEN Obj(SelectSeq(receipt.o, LAMBDA m : m.k # field))
    ELSE Obj(SetMember(receipt.o, field, value))

\* _validateVirtueReceipt(receipt)
CallValidateVirtueReceipt ==
  /\ fnArgs.fn = "none"
  /\ \E receipt \in ValidatorReceipts \cup Receipts :
       /\ fnArgs' = [fn |-> "_validateVirtueReceipt", receipt |-> receipt]
       /\ fnResult' = _validateVirtueReceipt(receipt)
  /\ UNCHANGED <<heap, strictMode, pc, op, input, result, metadata>>

\* _verifyChainIntegrity(receipt)
CallVerifyChainIntegrity ==
  /\ fnArgs.fn = "none"
  /\ \E receipt \in Receipts :
       /\ fnArgs' = [fn |-> "_verifyChainIntegrity", receipt |-> receipt]
       /\ fnResult' = _verifyChainIntegrity(receipt)
  /\ UNCHANGED <<heap, strictMode, pc, op, input, result, metadata>>

\* _verifyChainIntegrity on the preceding call's receipt with one field changed.
CallVerifyChainIntegrityChanged ==
  /\ fnArgs.fn = "_verifyChainIntegrity"
  /\ \E field \in ReceiptFields :
       \E value \in FieldValues(field) \ {Get(fnArgs.receipt, field)} :
         /\ fnArgs' = [fn |-> "_verifyChainIntegrity(changed)",
                       receipt |-> WithField(fnArgs.receipt, field, value),
                       before |-> fnArgs.receipt, field |-> field,
                       earlier |-> fnResult]
         /\ fnResult' = _verifyChainIntegrity(WithField(fnArgs.receipt, field, value))
  /\ UNCHANGED <<heap, strictMode, pc, op, input, result, metadata>>

\* verifyReceipt(virtueReceipt)
CallVerifyReceipt ==
  /\ fnArgs.fn = "none"
  /\ \E receipt \in BufferReceipts :
       /\ fnArgs' = [fn |-> "verifyReceipt", receipt |-> receipt]
       /\ fnResult' = verifyReceipt(receipt)
  /\ UNCHANGED <<heap, strictMode, pc, op, input, result, metadata>>

NextReceiptChecks ==
  \/ CallValidateVirtueReceipt
  \/ CallVerifyChainIntegrity
  \/ CallVerifyChainIntegrityChanged
  \/ CallVerifyReceipt

SpecReceiptChecks == InitHashUtils /\ [][NextReceiptChecks]_vars

(* ------------------------------------------------------------------ *)
(* The HTTP client: verifyFromFile, verifyFromBytes, verify            *)
(* ------------------------------------------------------------------ *)

\* hash.js
sha256HexFromBuffer(buf) == sha256(buf.bytes)
sha256UrnFromBuffer(buf) == "sha256:" \o sha256HexFromBuffer(buf)

\* The files of the model: two paths with the same content, one with another
\* content, one that cannot be read.
FilePaths == {"/in/invoice.pdf", "/in/copy-of-invoice.pdf", "/in/other.pdf",
              "/in/missing.pdf"}

\* fs.readFileSync(filePath): Some(buffer), or None when it throws.
readFileSync(filePath) ==
  CASE filePath \in {"/in/invoice.pdf", "/in/copy-of-invoice.pdf"} -> Some(Buf("docA"))
    [] filePath = "/in/other.pdf" -> Some(Buf("docB"))
    [] OTHER -> None

requestBody_withContent(args, document_hash) ==
  Obj(<< Member("document_id", args.documentId),
         Member("document_hash", Str(document_hash)),
         Member("issuer_key_id", args.issuerKeyId),
         Member("manifest_id", args.manifestId),
         Member("proof_level",
                IF args.proofLevel \in {Undefined, Null} THEN Str("L2")
                ELSE args.proofLevel),
         Member("document", args.source) >>)

\* The object literal verifyFromFile and verifyFromBytes pass to verify.
requestBody(args, document_hash) ==
  Obj(<< Member("document_id", args.documentId),
         Member("document_hash", Str(document_hash)),
         Member("issuer_key_id", args.issuerKeyId),
         Member("manifest_id", args.manifestId),
         Member("proof_level",
                IF args.proofLevel \in {Undefined, Null} THEN Str("L2")
                ELSE args.proofLevel) >>)

\* What the server, or the network, answers to a request.
Responses ==
  { [kind |-> "ok", data |-> Obj(<< Member("verdict", Str("VALID")) >>)],
    [kind |-> "http", status |-> 404,
     data |-> Obj(<< Member("request_id", Str("req-7")) >>),
     headerRequestId |-> Undefined],
    [kind |-> "http", status |-> 500, data |-> Undefined,
     headerRequestId |-> Str("req-8")],
    [kind |-> "network", message |-> "timeout of 15000ms exceeded"] }

\* #normalizeAxiosError(err)
normalizeAxiosError(response) ==
  IF response.kind = "http"
    THEN [ name |-> "WindiHttpError",
           message |-> "WINDI HTTP " \o JSONstringifyNumber(response.status),
           status |-> response.status, data |-> response.data,
           requestId |-> IF ~Falsy(response.headerRequestId)
                           THEN response.headerRequestId
                         ELSE IF response.data.t = "object"
                           THEN Get(response.data, "request_id")
                         ELSE Undefined ]
    ELSE [ name |-> "WindiHttpError",
           message |-> "WINDI network/error: " \o response.message,
           status |-> 0,
           data |-> Obj(<< Member("message", Str(response.message)) >>),
           requestId |-> Undefined ]

\* verify(req): the request posted and how the call settles.
verify(req, response) ==
  [ request |-> Some([method |-> "POST", url |-> "/verify", body |-> req]),
    outcome |-> IF response.kind = "ok"
                  THEN [t |-> "resolved", data |-> response.data]
                  ELSE [t |-> "rejected", error |-> normalizeAxiosError(response)] ]

\* A call that throws before anything is posted.
ThrownBeforeRequest(message) ==
  [ request |-> None,
    outcome |-> [t |-> "rejected", error |-> [name |-> "Error", message |-> message]] ]

\* The error fs.readFileSync throws on a path that does not exist.
ENOENT ==
  [ name |-> "Error", code |-> "ENOENT",
    message |-> "ENOENT: no such file or directory" ]

\* The read failure wrapped as a network error of the client.
verifyFromFile_normalized(args, response) ==
  LET buf == readFileSync(args.source.s)
  IN IF buf = None
       THEN [ request |-> None,
              outcome |-> [t |-> "rejected",
                           error |-> normalizeAxiosError(
                                       [kind |-> "network",
                                        message |-> ENOENT.message])] ]
       ELSE verify(requestBody(args, sha256UrnFromBuffer(buf[1])), response)

\* verifyFromFile(args), args.source being the file path: sha256UrnFromFile
\* reads the file synchronously before verify is called, and what it throws
\* rejects the returned promise as it is.
verifyFromFile(args, response) ==
  LET buf == readFileSync(args.source.s)
  IN IF buf = None
       THEN [ request |-> None, outcome |-> [t |-> "rejected", error |-> ENOENT] ]
       ELSE verify(requestBody(args, sha256UrnFromBuffer(buf[1])), response)

\* verifyFromBytes(args), args.source being the bytes
verifyFromBytes(args, response) ==
  IF args.source.t # "buffer" THEN ThrownBeforeRequest(InvalidArgMessage)
  ELSE verify(requestBody(args, sha256UrnFromBuffer(args.source)), response)

\* The identifiers a call is made with.
Identifiers ==
  [ documentId : {Str("windi:doc:inv-001"), Str("windi:doc:inv-002")},
    issuerKeyId : {Str("windi:key:bank")},
    manifestId : {Undefined, Str("windi:manifest:m1")},
    proofLevel : {Undefined, Str("L1"), Str("L3")} ]

ArgsOf(ids, source) ==
  [ documentId |-> ids.documentId, issuerKeyId |-> ids.issuerKeyId,
    manifestId |-> ids.manifestId, proofLevel |-> ids.proofLevel,
    source |-> source ]

FileArgs == {ArgsOf(ids, Str(path)) : ids \in Identifiers, path \in FilePaths}
BytesArgs == {ArgsOf(ids, source) : ids \in Identifiers, source \in Buffers}

\* verifyFromFile(args)
CallVerifyFromFile ==
  /\ fnArgs.fn = "none"
  /\ \E args \in FileArgs, response \in Responses :
       /\ fnArgs' = [fn |-> "verifyFromFile", args |-> args, first |-> None]
       /\ fnResult' = verifyFromFile(args, response)
  /\ UNCHANGED <<heap, strictMode, pc, op, input, result, metadata>>

\* verifyFromBytes(args)
CallVerifyFromBytes ==
  /\ fnArgs.fn = "none"
  /\ \E args \in BytesArgs, response \in Responses :
       /\ fnArgs' = [fn |-> "verifyFromBytes", args |-> args, first |-> None]
       /\ fnResult' = verifyFromBytes(args, response)
  /\ UNCHANGED <<heap, strictMode, pc, op, input, result, metadata>>

\* A second verifyFromFile call, on any file and identifiers.
CallSecondVerifyFromFile ==
  /\ fnArgs.fn \in {"verifyFromFile", "verifyFromBytes"}
  /\ fnArgs.first = None
  /\ \E args \in FileArgs, response \in Responses :
       /\ fnArgs' = [fn |-> "verifyFromFile", args |-> args,
                     first |-> Some([fn |-> fnArgs.fn, args |-> fnArgs.args,
                                     request |-> fnResult.request])]
       /\ fnResult' = verifyFromFile(args, response)
  /\ UNCHANGED <<heap, strictMode, pc, op, input, result, metadata>>

\* A second verifyFromBytes call, on any bytes and identifiers.
CallSecondVerifyFromBytes ==
  /\ fnArgs.fn \in {"verifyFromFile", "verifyFromBytes"}
  /\ fnArgs.first = None
  /\ \E args \in BytesArgs, response \in Responses :
       /\ fnArgs' = [fn |-> "verifyFromBytes", args |-> args,
                     first |-> Some([fn |-> fnArgs.fn, args |-> fnArgs.args,
                                     request |-> fnResult.request])]
       /\ fnResult' = verifyFromBytes(args, response)
  /\ UNCHANGED <<heap, strictMode, pc, op, input, result, metadata>>

NextHttpClient ==
  \/ CallVerifyFromFile
  \/ CallVerifyFromBytes
  \/ CallSecondVerifyFromFile
  \/ CallSecondVerifyFromBytes

SpecHttpClient == InitHashUtils /\ [][NextHttpClient]_vars

(* ------------------------------------------------------------------ *)
(* Vocabulary of the properties                                        *)
(* ------------------------------------------------------------------ *)

HashMismatchError == "Document hash does not match Virtue Receipt"
ChainError == "Chain integrity verification failed"

InSeq(x, seq) == \E i \in 1..Len(seq) : seq[i] = x

Returned(c) == pc[c] = "returned"

\* The call computed a digest of the document bytes.
HasDigest(c) ==
  \/ op[c] = "verifyDocument" /\ input[c].readable /\ pc[c] # "readFile"
  \/ op[c] = "verifyBuffer" /\ input[c].buffer.t = "buffer"

\* The digest of the document bytes, H(bytes).
DigestOf(c) ==
  IF op[c] = "verifyDocument" THEN sha256(input[c].bytes)
  ELSE sha256(input[c].buffer.bytes)

\* The call has a receipt object to check: the one extraction found
\* (verifyDocument) or the one passed in (verifyBuffer).
HasReceipt(c) ==
  \/ /\ op[c] = "verifyDocument" /\ pc[c] \in {"extractMetadata", "returned"}
     /\ input[c].readable
     /\ metadata[c] # None /\ metadata[c][1].virtueReceipt.t = "object"
  \/ op[c] = "verifyBuffer" /\ input[c].receipt.t = "object"

ReceiptOfCall(c) ==
  IF op[c] = "verifyDocument" THEN metadata[c][1].virtueReceipt
  ELSE input[c].receipt

Present(receipt, field) ==
  /\ Get(receipt, field).t = "string"
  /\ Get(receipt, field).s # ""

\* Structural validity as section 4.4 of the specification states it.
StructurallyValid(receipt) ==
  /\ \A field \in {"document_id", "hash", "timestamp", "governance_level"} :
       Present(receipt, field)
  /\ \E d \in Contents :
       Get(receipt, "hash").s \in {sha256(d), toUpperCase(sha256(d))}
  /\ Get(receipt, "governance_level").s \in {"HIGH", "MEDIUM", "LOW"}
  /\ Get(receipt, "timestamp").s \in ValidTimestamps

\* The canonical payload of the receipt's core fields, written out.
CorePayload(receipt) ==
  "{\"document_id\":\"" \o Get(receipt, "document_id").s
    \o "\",\"governance_level\":\"" \o Get(receipt, "governance_level").s
    \o "\",\"hash\":\"" \o Get(receipt, "hash").s
    \o "\",\"timestamp\":\"" \o Get(receipt, "timestamp").s \o "\"}"

\* The receipt matches the document: structurally valid, hash = digest.
MatchingReceipt(c) ==
  /\ HasReceipt(c) /\ HasDigest(c)
  /\ StructurallyValid(ReceiptOfCall(c))
  /\ Get(ReceiptOfCall(c), "hash") = Str(DigestOf(c))

\* prev_hash and chain_hash are both present and chain_hash is not
\* H(prev_hash || canonical payload).
BrokenChainLink(receipt) ==
  /\ Present(receipt, "prev_hash")
  /\ Present(receipt, "chain_hash")
  /\ Get(receipt, "chain_hash").s
       # sha256(Get(receipt, "prev_hash").s \o CorePayload(receipt))

(* ------------------------------------------------------------------ *)
(* C1                                                                  *)
(* ------------------------------------------------------------------ *)

HashFieldDiffers(c) ==
  /\ Returned(c) /\ HasReceipt(c) /\ HasDigest(c)
  /\ Get(ReceiptOfCall(c), "hash") # Str(DigestOf(c))

\* C1 (as stated): whenever the receipt's hash differs from the document
\* digest, the result is INVALID, not verified, and carries the hash-mismatch
\* error.  Stated here for the well-formed differing hashes only (present,
\* 64 hex digits), which is already too much.
C1_AsStated ==
  \A c \in Calls :
    (HashFieldDiffers(c) /\ Present(ReceiptOfCall(c), "hash")
       /\ matchesSha256Pattern(Get(ReceiptOfCall(c), "hash").s)) =>
      /\ result[c].status = "INVALID"
      /\ ~result[c].verified
      /\ InSeq(HashMismatchError, result[c].errors)

\* C1 (amended): a receipt whose hash differs from the document digest is
\* always INVALID and not verified, in both modes and whatever its chain
\* fields; it carries the hash-mismatch error when the receipt is
\* structurally valid (a structurally invalid one carries the validator's
\* errors instead).
C1_HashMismatchInvalid ==
  \A c \in Calls :
    HashFieldDiffers(c) =>
      /\ result[c].status = "INVALID"
      /\ ~result[c].verified
      /\ StructurallyValid(ReceiptOfCall(c)) =>
           result[c].errors = << HashMismatchError >>

C1_Witness ==
  \E c \in Calls :
    /\ HashFieldDiffers(c)
    /\ StructurallyValid(ReceiptOfCall(c))
    /\ ~BrokenChainLink(ReceiptOfCall(c))
    /\ Present(ReceiptOfCall(c), "chain_hash")
    /\ Present(ReceiptOfCall(c), "prev_hash")
    /\ ~strictMode
    /\ result[c].status = "INVALID"

(* ------------------------------------------------------------------ *)
(* C2, C3                                                              *)
(* ------------------------------------------------------------------ *)

\* chain_hash is present and is not the hash of a chain link of this receipt:
\* there is no prev_hash, or chain_hash differs from H(prev_hash || payload).
IncorrectChainHash(receipt) ==
  /\ Present(receipt, "chain_hash")
  /\ \/ ~Present(receipt, "prev_hash")
     \/ BrokenChainLink(receipt)

\* C2 (as stated): in strict mode, verifyDocument on a matching receipt with
\* a present, incorrect chain_hash returns INVALID, not verified, with the
\* chain-integrity error.
C2_AsStated ==
  \A c \in Calls :
    (Returned(c) /\ op[c] = "verifyDocument" /\ strictMode /\ MatchingReceipt(c)
       /\ IncorrectChainHash(ReceiptOfCall(c))) =>
      /\ result[c].status = "INVALID"
      /\ ~result[c].verified
      /\ InSeq(ChainError, result[c].errors)

\* C2 (amended): in strict mode, verifyDocument on a matching receipt whose
\* prev_hash and chain_hash are both present, with chain_hash different from
\* H(prev_hash || canonical payload), returns INVALID, not verified, with the
\* chain-integrity error as its only error and chainIntact false.
C2_StrictBrokenChainInvalid ==
  \A c \in Calls :
    (Returned(c) /\ op[c] = "verifyDocument" /\ strictMode /\ MatchingReceipt(c)
       /\ BrokenChainLink(ReceiptOfCall(c))) =>
      /\ result[c].status = "INVALID"
      /\ ~result[c].verified
      /\ ~result[c].chainIntact
      /\ result[c].errors = << ChainError >>

C2_Witness ==
  \E c \in Calls :
    /\ Returned(c) /\ op[c] = "verifyDocument" /\ strictMode /\ MatchingReceipt(c)
    /\ BrokenChainLink(ReceiptOfCall(c))
    /\ result[c].status = "INVALID"

\* C3 (as stated): in lenient mode, verifyDocument on a matching receipt with
\* a present, incorrect chain_hash returns VERIFIED, verified, with
\* chainIntact false and at least one warning.
C3_AsStated ==
  \A c \in Calls :
    (Returned(c) /\ op[c] = "verifyDocument" /\ ~strictMode /\ MatchingReceipt(c)
       /\ IncorrectChainHash(ReceiptOfCall(c))) =>
      /\ result[c].status = "VERIFIED"
      /\ result[c].verified
      /\ ~result[c].chainIntact
      /\ Len(result[c].warnings) >= 1

\* C3 (amended): in lenient mode, verifyDocument on a matching receipt whose
\* prev_hash and chain_hash are both present, with chain_hash different from
\* H(prev_hash || canonical payload), returns VERIFIED, verified, with
\* chainIntact false and at least one warning.
C3_LenientBrokenChainVerified ==
  \A c \in Calls :
    (Returned(c) /\ op[c] = "verifyDocument" /\ ~strictMode /\ MatchingReceipt(c)
       /\ BrokenChainLink(ReceiptOfCall(c))) =>
      /\ result[c].status = "VERIFIED"
      /\ result[c].verified
      /\ ~result[c].chainIntact
      /\ Len(result[c].warnings) >= 1

C3_Witness ==
  \E c \in Calls :
    /\ Returned(c) /\ op[c] = "verifyDocument" /\ ~strictMode /\ MatchingReceipt(c)
    /\ BrokenChainLink(ReceiptOfCall(c))
    /\ result[c].status = "VERIFIED"
    /\ result[c].warnings = << "Chain verification failed but document hash valid" >>

(* ------------------------------------------------------------------ *)
(* C4                                                                  *)
(* ------------------------------------------------------------------ *)

NoChainData(receipt) ==
  /\ ~HasKey(receipt, "prev_hash")
  /\ ~HasKey(receipt, "chain_hash")

\* C4: a matching receipt (structurally valid, hash = document digest) with
\* neither prev_hash nor chain_hash yields VERIFIED, verified, chainIntact
\* true, in strict and in lenient mode.
C4_NoChainVerified ==
  \A c \in Calls :
    (Returned(c) /\ MatchingReceipt(c) /\ NoChainData(ReceiptOfCall(c))) =>
      /\ result[c].status = "VERIFIED"
      /\ result[c].verified
      /\ result[c].chainIntact

C4_Witness ==
  \E c \in Calls :
    /\ Returned(c) /\ op[c] = "verifyDocument" /\ strictMode
    /\ MatchingReceipt(c) /\ NoChainData(ReceiptOfCall(c))
    /\ result[c].status = "VERIFIED" /\ result[c].chainIntact

(* ------------------------------------------------------------------ *)
(* C5                                                                  *)
(* ------------------------------------------------------------------ *)

\* A source of the document holds a receipt: a JSON value that is an object.
HoldsReceipt(source) ==
  /\ source.matched
  /\ source.json # None
  /\ source.json[1].t = "object"

\* The envelope of the document carries a receipt member.
EnvelopeHoldsReceipt(doc) ==
  /\ HoldsReceipt(doc.envelope)
  /\ \/ Get(doc.envelope.json[1], "virtue_receipt").t = "object"
     \/ Get(doc.envelope.json[1], "virtueReceipt").t = "object"

\* No extraction strategy of the document's type finds a receipt in it.
NoEmbeddedReceipt(doc) ==
  /\ ~EnvelopeHoldsReceipt(doc)
  /\ ~HoldsReceipt(doc.inline)
  /\ doc.ext = ".pdf" =>
       /\ ~(doc.pdfDict.matched /\ doc.pdfDict.hasVirtueReceipt
              /\ doc.pdfDict.json # None)
       /\ ~HoldsReceipt(doc.xmp)

\* A source of the document parses as JSON.
ParsesAsJSON(source) == source.matched /\ source.json # None

\* No extraction strategy of the document's type yields a JSON value: there
\* is no WINDI envelope that parses as JSON other than null, no
\* "virtue_receipt" object that parses and, in a PDF, no /WINDI dictionary
\* with a VirtueReceipt entry that parses and no XMP element that parses.
NothingParses(doc) ==
  /\ ~(ParsesAsJSON(doc.envelope) /\ doc.envelope.json[1].t # "null")
  /\ ~ParsesAsJSON(doc.inline)
  /\ doc.ext = ".pdf" =>
       /\ ~(doc.pdfDict.matched /\ doc.pdfDict.hasVirtueReceipt
              /\ doc.pdfDict.json # None)
       /\ ~ParsesAsJSON(doc.xmp)

\* C5 (as stated): a readable document in which extraction finds no embedded
\* receipt yields NO_GOVERNANCE, not verified, with no errors.
C5_AsStated ==
  \A c \in Calls :
    (Returned(c) /\ op[c] = "verifyDocument" /\ input[c].readable
       /\ NoEmbeddedReceipt(input[c])) =>
      /\ result[c].status = "NO_GOVERNANCE"
      /\ ~result[c].verified
      /\ result[c].errors = << >>

\* C5 (amended): a readable document in which no extraction strategy yields a
\* JSON value (no envelope, receipt object, PDF dictionary entry or XMP
\* element that parses) yields NO_GOVERNANCE, not verified, with no errors
\* and the no-metadata warning.
C5_NoMetadataNoGovernance ==
  \A c \in Calls :
    (Returned(c) /\ op[c] = "verifyDocument" /\ input[c].readable
       /\ NothingParses(input[c])) =>
      /\ result[c].status = "NO_GOVERNANCE"
      /\ ~result[c].verified
      /\ result[c].errors = << >>
      /\ result[c].warnings = << "No WINDI governance metadata found in document" >>

C5_Witness ==
  \E c \in Calls :
    /\ Returned(c) /\ op[c] = "verifyDocument" /\ input[c].readable
    /\ NothingParses(input[c])
    /\ input[c].envelope = BadJSON /\ input[c].ext = ".pdf" /\ input[c].xmp = BadJSON
    /\ result[c].status = "NO_GOVERNANCE"

(* ------------------------------------------------------------------ *)
(* C6                                                                  *)
(* ------------------------------------------------------------------ *)

\* C6: when reading the file fails, verifyDocument returns ERROR, not
\* verified, its only error being "Verification error: " followed by the
\* message of the read error; nothing a later step sets is set (no document
\* hash, no receipt, no metadata, chainIntact false, no warnings, no
\* governance level or profile).
C6_ReadFailureIsError ==
  \A c \in Calls :
    (Returned(c) /\ op[c] = "verifyDocument" /\ ~input[c].readable) =>
      /\ result[c].status = "ERROR"
      /\ ~result[c].verified
      /\ result[c].errors = << "Verification error: " \o input[c].readError >>
      /\ result[c].documentHash = Null
      /\ result[c].virtueReceipt = Null
      /\ metadata[c] = None
      /\ ~result[c].chainIntact
      /\ result[c].warnings = << >>
      /\ result[c].governanceLevel = Null
      /\ result[c].ispProfile = Null

C6_Witness ==
  \E c \in Calls :
    /\ Returned(c) /\ op[c] = "verifyDocument" /\ ~input[c].readable
    /\ result[c].status = "ERROR"
    /\ result[c].errors = << "Verification error: ENOENT: no such file or directory" >>

(* ------------------------------------------------------------------ *)
(* C7                                                                  *)
(* ------------------------------------------------------------------ *)

\* C7: every result verifyDocument and verifyBuffer return has verifiedAt set
\* (not null).
C7_VerifiedAtSet ==
  \A c \in Calls : Returned(c) => result[c].verifiedAt # None

(* ------------------------------------------------------------------ *)
(* C8                                                                  *)
(* ------------------------------------------------------------------ *)

TerminalStatuses == {"VERIFIED", "INVALID", "ERROR", "NO_GOVERNANCE"}

\* C8: no call rejects or throws: a call is idle, awaiting the read, awaiting
\* the metadata, or has returned; and a returned result carries a terminal
\* status, never PENDING.
C8_NeverThrows ==
  \A c \in Calls :
    /\ pc[c] \in {"idle", "readFile", "extractMetadata", "returned"}
    /\ Returned(c) => result[c].status \in TerminalStatuses

\* An exception was raised inside the try block and the call returned ERROR.
C8_Witness ==
  \E c \in Calls :
    /\ Returned(c) /\ op[c] = "verifyBuffer" /\ input[c].buffer = Undefined
    /\ result[c].status = "ERROR"
    /\ result[c].errors = << "Verification error: " \o InvalidArgMessage >>

(* ------------------------------------------------------------------ *)
(* C9, C10 (under SpecHashUtils)                                       *)
(* ------------------------------------------------------------------ *)

\* C9: verifyChainLink on the hash generateChainHash returned for the same
\* previous hash and payload is true, and verifyChainLink is false for every
\* expected hash other than H(prevHash || payload).
C9_ChainLinkRoundTrip ==
  fnArgs.fn = "verifyChainLink" =>
    /\ fnResult \in BOOLEAN
    /\ fnArgs.issued => fnResult = TRUE
    /\ fnArgs.expectedHash # sha256(fnArgs.prevHash \o fnArgs.payload)
         => fnResult = FALSE

C9_Witness ==
  /\ fnArgs.fn = "verifyChainLink"
  /\ fnArgs.issued
  /\ fnArgs.prevHash = GENESIS_HASH
  /\ fnArgs.payload # ""
  /\ fnResult = TRUE

\* C10: verifyMerkleRoot is false on the empty leaf list, and on a single
\* leaf it is true exactly when the leaf equals the expected root.
C10_MerkleDegenerate ==
  fnArgs.fn = "verifyMerkleRoot" =>
    /\ Len(fnArgs.hashes) = 0 => fnResult = FALSE
    /\ Len(fnArgs.hashes) = 1 =>
         (fnResult = TRUE <=> fnArgs.hashes[1] = fnArgs.expectedRoot)

C10_Witness ==
  /\ fnArgs.fn = "verifyMerkleRoot"
  /\ Len(fnArgs.hashes) = 1
  /\ fnArgs.hashes[1] = "x"
  /\ fnArgs.expectedRoot = "x"
  /\ fnResult = TRUE

(* ------------------------------------------------------------------ *)
(* C11 (under SpecHashUtils)                                           *)
(* ------------------------------------------------------------------ *)

\* One level of the pairing rule as the specification words it: adjacent
\* elements are paired left to right, the last element is paired with itself
\* when the level has odd length, each pair becomes H(left || right).
RECURSIVE PairedLevel(_)
PairedLevel(level) ==
  IF Len(level) = 0 THEN << >>
  ELSE IF Len(level) = 1 THEN << sha256(level[1] \o level[1]) >>
  ELSE << sha256(level[1] \o level[2]) >>
         \o PairedLevel(SubSeq(level, 3, Len(level)))

RECURSIVE PairedRoot(_)
PairedRoot(level) ==
  IF Len(level) > 1 THEN PairedRoot(PairedLevel(level)) ELSE level[1]

\* C11: for two or more leaves verifyMerkleRoot is true exactly when the
\* expected root is the value of the pairing rule; for three leaves that
\* value is H(H(a || b) || H(c || c)).
C11_MerklePairing ==
  (fnArgs.fn = "verifyMerkleRoot" /\ Len(fnArgs.hashes) >= 2) =>
    /\ fnResult = (fnArgs.expectedRoot = PairedRoot(fnArgs.hashes))
    /\ Len(fnArgs.hashes) = 3 =>
         PairedRoot(fnArgs.hashes) =
           sha256(sha256(fnArgs.hashes[1] \o fnArgs.hashes[2])
                    \o sha256(fnArgs.hashes[3] \o fnArgs.hashes[3]))

\* The same statement for leaves that are all non-empty strings.
C11_NonEmptyLeaves ==
  (/\ fnArgs.fn = "verifyMerkleRoot" /\ Len(fnArgs.hashes) >= 2
   /\ \A i \in 1..Len(fnArgs.hashes) : fnArgs.hashes[i] # "") =>
    fnResult = (fnArgs.expectedRoot = PairedRoot(fnArgs.hashes))

(* ------------------------------------------------------------------ *)
(* C12, C13 (under SpecCanonicalJSON)                                  *)
(* ------------------------------------------------------------------ *)

\* v and w are equal up to the order of the keys of their objects.
RECURSIVE EqualUpToKeyOrder(_, _)
EqualUpToKeyOrder(v, w) ==
  IF v.t # w.t THEN FALSE
  ELSE IF v.t = "object"
    THEN /\ Len(v.o) = Len(w.o)
         /\ \A i \in 1..Len(v.o) :
              /\ HasKey(w, v.o[i].k)
              /\ EqualUpToKeyOrder(v.o[i].v, Get(w, v.o[i].k))
  ELSE IF v.t = "array"
    THEN /\ Len(v.a) = Len(w.a)
         /\ \A i \in 1..Len(v.a) : EqualUpToKeyOrder(v.a[i], w.a[i])
  ELSE v = w

\* C12: for two JSON values equal up to the order of keys in their objects,
\* at every depth, canonicalizeJSON returns the same string and hashJSON the
\* same digest.
C12_KeyOrderIndependent ==
  (/\ fnArgs.fn \in {"canonicalizeJSON(reordered)", "hashJSON(reordered)"}
   /\ EqualUpToKeyOrder(fnArgs.obj, fnArgs.reorderingOf)) =>
    fnResult = fnArgs.earlier

\* Keys in another order at the top and inside a nested object.
C12_Witness ==
  /\ fnArgs.fn = "hashJSON(reordered)"
  /\ fnArgs.reorderingOf =
       Obj(<< [k |-> "b", v |-> Num(42)],
              [k |-> "a", v |-> Arr(<< Obj(<< [k |-> "b", v |-> Str("")],
                                              [k |-> "a", v |-> Str("")] >>) >>)] >>)
  /\ fnArgs.obj =
       Obj(<< [k |-> "a", v |-> Arr(<< Obj(<< [k |-> "a", v |-> Str("")],
                                              [k |-> "b", v |-> Str("")] >>) >>)],
              [k |-> "b", v |-> Num(42)] >>)
  /\ fnResult = fnArgs.earlier
  /\ fnResult = sha256("{\"a\":[{\"a\":\"\",\"b\":\"\"}],\"b\":42}")

\* C13: for every JSON value v, canonicalizeJSON(v) parses as JSON, and
\* canonicalizing the parsed value returns exactly canonicalizeJSON(v).
C13_Idempotent ==
  fnArgs.fn = "canonicalizeJSON(JSON.parse)" =>
    /\ fnArgs.parsed # None
    /\ fnResult = fnArgs.text

\* A value with keys out of order and a string that needs escaping.
C13_Witness ==
  /\ fnArgs.fn = "canonicalizeJSON(JSON.parse)"
  /\ fnArgs.original = Obj(<< [k |-> "c", v |-> Str("a\"b\\c")],
                              [k |-> "a", v |-> Null] >>)
  /\ fnArgs.text = "{\"a\":null,\"c\":\"a\\\"b\\\\c\"}"
  /\ fnArgs.parsed = Some(Obj(<< [k |-> "a", v |-> Null],
                                 [k |-> "c", v |-> Str("a\"b\\c")] >>))
  /\ fnResult = fnArgs.text

(* ------------------------------------------------------------------ *)
(* C16 (under SpecCanon)                                               *)
(* ------------------------------------------------------------------ *)

\* C16: canonIBAN returns its input with all white space and hyphens removed
\* and letters upper-cased; applied to its own result it returns it
\* unchanged; shelfPaytoIban gives the same string on a value and on its
\* canonical form, "PAYTO|IBAN|" followed by the canonical form.
C16_CanonIBAN ==
  /\ fnArgs.fn = "canonIBAN" =>
       /\ fnResult =
            toUpperCaseFrom(
              removeAllFrom(StringOrEmpty(fnArgs.iban), {" ", "\t", "\n", "-"}, 1), 1)
       /\ fnArgs.iban = Str("DE89 3704 0044 0532 0130 00") =>
            fnResult = "DE89370400440532013000"
  /\ fnArgs.fn = "canonIBAN(canonIBAN)" => fnResult = fnArgs.iban.s
  /\ fnArgs.fn = "shelfPaytoIban(canonIBAN)" =>
       fnResult = "PAYTO|IBAN|" \o fnArgs.iban.s
  /\ fnArgs.fn = "shelfPaytoIban" =>
       /\ fnResult = fnArgs.earlier
       /\ fnResult = "PAYTO|IBAN|" \o fnArgs.canonical

C16_Witness ==
  /\ fnArgs.fn = "shelfPaytoIban"
  /\ fnArgs.iban = Str("DE89 3704 0044 0532 0130 00")
  /\ fnArgs.earlier = "PAYTO|IBAN|DE89370400440532013000"
  /\ fnResult = "PAYTO|IBAN|DE89370400440532013000"

(* ------------------------------------------------------------------ *)
(* C14, C15 (under SpecCanon)                                          *)
(* ------------------------------------------------------------------ *)

\* The amount, as a string, without currency symbols and white space.
StrippedAmount(amount) ==
  removeAllFrom(StringOrEmpty(amount), {"€", "$", "£", "¥", " ", "\t", "\n"}, 1)

OnlyDigits(s) == \A i \in 1..Len(s) : IsDigit(Ch(s, i))

\* The 1-based position of the rightmost ',' or '.' of s, 0 without one.
DecimalMarkAt(s) ==
  IF lastIndexOf(s, ",") > lastIndexOf(s, ".")
    THEN lastIndexOf(s, ",") + 1 ELSE lastIndexOf(s, ".") + 1

\* The digits before the decimal mark, the other separator removed.
WholePart(s) ==
  LET d == DecimalMarkAt(s)
      before == IF d = 0 THEN s ELSE SubSeq(s, 1, d - 1)
  IN removeAllFrom(before, {",", "."} \ {Ch(s, d)}, 1)

FractionPart(s) ==
  LET d == DecimalMarkAt(s)
  IN IF d = 0 THEN "" ELSE SubSeq(s, d + 1, Len(s))

\* An amount the rule of C14 reads without ambiguity: digits, the rightmost
\* separator as decimal mark, the other separator only before it.
WellFormedAmount(s) ==
  /\ OnlyDigits(WholePart(s)) /\ OnlyDigits(FractionPart(s))
  /\ Len(WholePart(s)) + Len(FractionPart(s)) >= 1

\* The two-decimal string of whole.fraction, rounded half up.
TwoDecimals(whole, fraction) ==
  LET scale == PowerOfTen(Len(fraction))
      cents == (200 * DigitsValue(whole \o fraction) + scale) \div (2 * scale)
  IN JSONstringifyNumber(cents \div 100) \o "."
       \o Digits[((cents \div 10) % 10) + 1] \o Digits[(cents % 10) + 1]

HasDigit(s) == \E i \in 1..Len(s) : IsDigit(Ch(s, i))

\* C14: canonAmount2 strips currency symbols and white space, takes the
\* rightmost of ',' and '.' as the decimal mark, removes the other separator
\* and returns a two-decimal string; "€ 1.234,50" and "1,234.50" give
\* "1234.50"; empty input and input without a number give "0.00".
C14_CanonAmount2 ==
  fnArgs.fn = "canonAmount2" =>
    LET s == StrippedAmount(fnArgs.amount)
    IN /\ fnArgs.amount \in {Str("€ 1.234,50"), Str("1,234.50")} =>
            fnResult = "1234.50"
       /\ ~HasDigit(s) => fnResult = "0.00"
       /\ WellFormedAmount(s) =>
            fnResult = TwoDecimals(WholePart(s), FractionPart(s))

\* The statement of C14 for the module with the currency table alone.
C14_TableModuleOnly ==
  (fnArgs.fn = "canonAmount2" /\ fnArgs.impl = "part_002") => C14_CanonAmount2

\* The ISO 4217 code the table of C15 gives an upper-cased symbol or name.
TableCode(upper) ==
  CASE upper \in {"€", "EURO", "EUR"} -> "EUR"
    [] upper \in {"$", "DOLLAR", "USD"} -> "USD"
    [] upper \in {"£", "POUND", "GBP"} -> "GBP"
    [] upper \in {"¥", "YEN", "JPY"} -> "JPY"
    [] upper \in {"CHF", "FRANC"} -> "CHF"
    [] OTHER -> upper

\* C15: canonCurrency maps each symbol or name of the table, in any case, to
\* its ISO 4217 code and returns any other input upper-cased; applied to its
\* own result it returns it unchanged; shelfCurrencyIso("Euro") is
\* "CURRENCY|ISO4217|EUR".
C15_CanonCurrency ==
  /\ fnArgs.fn = "canonCurrency" =>
       fnResult = TableCode(canonTextUpper(fnArgs.cur))
  /\ fnArgs.fn = "canonCurrency(canonCurrency)" => fnResult = fnArgs.cur.s
  /\ (fnArgs.fn = "shelfCurrencyIso" /\ fnArgs.cur = Str("Euro")) =>
       fnResult = "CURRENCY|ISO4217|EUR"

\* The statement of C15 for the module with the currency table alone.
C15_TableModuleOnly ==
  (fnArgs.fn \in {"canonCurrency", "canonCurrency(canonCurrency)",
                  "shelfCurrencyIso"} /\ fnArgs.impl = "part_002")
    => C15_CanonCurrency

(* ------------------------------------------------------------------ *)
(* C17 (under SpecReceiptChecks)                                       *)
(* ------------------------------------------------------------------ *)

\* The number of elements of seq equal to x.
CountOf(x, seq) == Cardinality({i \in 1..Len(seq) : seq[i] = x})

\* The value is 64 hexadecimal characters, in either case.
SixtyFourHex(value) ==
  /\ value.t = "string"
  /\ \E d \in Contents : value.s \in {sha256(d), toUpperCase(sha256(d))}

\* The violations section 4.4 lists, as the errors they are reported with.
ExpectedValidationErrors(receipt) ==
  {"Missing required field: " \o field :
     field \in {f \in {"document_id", "hash", "timestamp", "governance_level"} :
                  ~Present(receipt, f)}}
    \cup (IF Present(receipt, "hash") /\ ~SixtyFourHex(Get(receipt, "hash"))
            THEN {"Invalid hash format (expected SHA-256)"} ELSE {})
    \cup (IF Present(receipt, "governance_level")
               /\ Get(receipt, "governance_level").s \notin {"HIGH", "MEDIUM", "LOW"}
            THEN {"Invalid governance level: " \o Get(receipt, "governance_level").s}
            ELSE {})
    \cup (IF Present(receipt, "timestamp")
               /\ Get(receipt, "timestamp").s \notin ValidTimestamps
            THEN {"Invalid timestamp format"} ELSE {})

\* C17: for a non-null receipt the validator reports every violation once
\* and nothing else: a missing-field error per absent or empty required
\* field, and the format errors of the present hash, governance level and
\* timestamp; the list is empty exactly when there is no violation.
C17_ValidatorComplete ==
  fnArgs.fn = "_validateVirtueReceipt" =>
    /\ \A e \in ExpectedValidationErrors(fnArgs.receipt) : CountOf(e, fnResult) = 1
    /\ Len(fnResult) = Cardinality(ExpectedValidationErrors(fnArgs.receipt))
    /\ (fnResult = << >>) <=> (ExpectedValidationErrors(fnArgs.receipt) = {})

\* Two fields missing and the two present ones malformed: four errors.
C17_Witness ==
  /\ fnArgs.fn = "_validateVirtueReceipt"
  /\ fnArgs.receipt = Obj(<< Member("document_id", Str("")),
                             Member("hash", Str("not-a-hash")),
                             Member("governance_level", Str("ULTRA")) >>)
  /\ fnResult = << "Missing required field: document_id",
                   "Missing required field: timestamp",
                   "Invalid hash format (expected SHA-256)",
                   "Invalid governance level: ULTRA" >>

(* ------------------------------------------------------------------ *)
(* C19 (under SpecReceiptChecks)                                       *)
(* ------------------------------------------------------------------ *)

CoreFields == {"document_id", "hash", "timestamp", "governance_level"}
UncheckedFields == {"isp_profile", "sge_scores", "actor", "signature"}

\* C19 (as stated): changing isp_profile, sge_scores, actor or signature
\* never changes the outcome of the chain check, and changing a core field
\* of a receipt whose chain check passed makes it fail.
C19_AsStated ==
  fnArgs.fn = "_verifyChainIntegrity(changed)" =>
    /\ fnArgs.field \in UncheckedFields => fnResult = fnArgs.earlier
    /\ (fnArgs.field \in CoreFields /\ fnArgs.earlier = TRUE) => fnResult = FALSE

\* C19 (amended): changing isp_profile, sge_scores, actor or signature never
\* changes the outcome of the chain check; changing a core field of a receipt
\* that has both prev_hash and chain_hash and whose chain check passed makes
\* it fail.
C19_ChainCheckDependence ==
  fnArgs.fn = "_verifyChainIntegrity(changed)" =>
    /\ fnArgs.field \in UncheckedFields => fnResult = fnArgs.earlier
    /\ (/\ fnArgs.field \in CoreFields /\ fnArgs.earlier = TRUE
        /\ Present(fnArgs.before, "prev_hash")
        /\ Present(fnArgs.before, "chain_hash")) => fnResult = FALSE

\* An issued link stops verifying once the governance level is changed.
C19_Witness ==
  /\ fnArgs.fn = "_verifyChainIntegrity(changed)"
  /\ fnArgs.before = SampleReceipt("doc-1")
  /\ fnArgs.field = "governance_level"
  /\ Get(fnArgs.receipt, "governance_level") = Str("LOW")
  /\ fnArgs.earlier = TRUE
  /\ fnResult = FALSE

(* ------------------------------------------------------------------ *)
(* C18 (under SpecHttpClient)                                          *)
(* ------------------------------------------------------------------ *)

\* The content of the document a call is made on, None when there is none
\* to read.
ContentOf(fn, args) ==
  IF fn = "verifyFromFile"
    THEN CASE args.source.s \in {"/in/invoice.pdf", "/in/copy-of-invoice.pdf"} -> Some("docA")
           [] args.source.s = "/in/other.pdf" -> Some("docB")
           [] OTHER -> None
    ELSE IF args.source.t = "buffer" THEN Some(args.source.bytes) ELSE None

SameIdentifiers(a, b) ==
  /\ a.documentId = b.documentId /\ a.issuerKeyId = b.issuerKeyId
  /\ a.manifestId = b.manifestId /\ a.proofLevel = b.proofLevel

RequestFields ==
  {"document_id", "document_hash", "issuer_key_id", "manifest_id", "proof_level"}

\* C18: the request verifyFromFile and verifyFromBytes send holds only
\* document_id, document_hash, issuer_key_id, manifest_id and proof_level,
\* the hash being "sha256:" and the digest of the content; two calls on
\* documents of the same digest with the same identifiers send identical
\* requests.
C18_OnlyDigestSent ==
  (fnArgs.fn \in {"verifyFromFile", "verifyFromBytes"} /\ fnResult.request # None) =>
    LET body == fnResult.request[1].body
        content == ContentOf(fnArgs.fn, fnArgs.args)
    IN /\ content # None
       /\ \A i \in 1..Len(body.o) : body.o[i].k \in RequestFields
       /\ Get(body, "document_hash") = Str("sha256:" \o sha256(content[1]))
       /\ Get(body, "document_id") = fnArgs.args.documentId
       /\ Get(body, "issuer_key_id") = fnArgs.args.issuerKeyId
       /\ Get(body, "manifest_id") = fnArgs.args.manifestId
       /\ (/\ fnArgs.first # None
           /\ fnArgs.first[1].request # None
           /\ ContentOf(fnArgs.first[1].fn, fnArgs.first[1].args) = content
           /\ SameIdentifiers(fnArgs.first[1].args, fnArgs.args))
          => fnResult.request = fnArgs.first[1].request

\* The same content read from a file and from its copy passed as bytes.
C18_Witness ==
  /\ fnArgs.fn = "verifyFromBytes"
  /\ fnArgs.args.source = Buf("docA")
  /\ fnArgs.first # None
  /\ fnArgs.first[1].fn = "verifyFromFile"
  /\ fnArgs.first[1].args.source = Str("/in/copy-of-invoice.pdf")
  /\ SameIdentifiers(fnArgs.first[1].args, fnArgs.args)
  /\ fnResult.request # None
  /\ fnResult.request = fnArgs.first[1].request

(* ------------------------------------------------------------------ *)
(* Two verifyDocument calls in flight on one client                    *)
(* ------------------------------------------------------------------ *)

\* The heap holds the objects the calls allocate, in allocation order; a
\* reference is an object's index. A result object holds references to its
\* errors and warnings arrays, as the object literal of _createEmptyResult
\* does.
ArrayObject(elems) == [kind |-> "array", elems |-> elems]
ResultObject(fields) == [kind |-> "result", fields |-> fields]

\* A newly allocated object: the heap with it, and the reference to it.
Alloc(h, object) == [heap |-> Append(h, object), ref |-> Len(h) + 1]

\* A result object whose lists are the ones the client's first result got.
allocateResult_shared(h) ==
  IF Len(h) = 0
    THEN LET errors == Alloc(h, ArrayObject(<< >>))
             warnings == Alloc(errors.heap, ArrayObject(<< >>))
         IN Alloc(warnings.heap,
                  ResultObject([_createEmptyResult EXCEPT !.errors = errors.ref,
                                                          !.warnings = warnings.ref]))
    ELSE Alloc(h, ResultObject([_createEmptyResult EXCEPT !.errors = 1,
                                                          !.warnings = 2]))

\* this._createEmptyResult() evaluated on heap h: the object literal and its
\* two array literals are new objects.
allocateResult(h) ==
  LET errors == Alloc(h, ArrayObject(<< >>))
      warnings == Alloc(errors.heap, ArrayObject(<< >>))
  IN Alloc(warnings.heap,
           ResultObject([_createEmptyResult EXCEPT !.errors = errors.ref,
                                                   !.warnings = warnings.ref]))

\* The result a reference denotes: its fields, with the elements of the
\* arrays its errors and warnings fields refer to.
Load(h, ref) ==
  [h[ref].fields EXCEPT !.errors = h[@].elems, !.warnings = h[@].elems]

\* The heap after the statements that took the result `ref` denotes to `r`:
\* the field assignments change the result object, the pushes change the
\* arrays it refers to, in place.
Store(h, ref, r) ==
  LET errorsRef == h[ref].fields.errors
      warningsRef == h[ref].fields.warnings
      pushedErrors == [h EXCEPT ![errorsRef] = ArrayObject(r.errors)]
      pushedWarnings == [pushedErrors EXCEPT ![warningsRef] = ArrayObject(r.warnings)]
  IN [pushedWarnings EXCEPT ![ref] =
        ResultObject([r EXCEPT !.errors = errorsRef, !.warnings = warningsRef])]

ConcurrentCalls == {"call1", "call2"}

NoResult == 0

\* A readable .txt document of the given bytes with `receipt` in its envelope.
EnvelopeDocument(bytes, receipt) ==
  [ readable |-> TRUE, readError |-> "", bytes |-> bytes, ext |-> ".txt",
    envelope |-> Parsed(Obj(<< Member("virtue_receipt", receipt) >>)),
    inline |-> NoMatch, pdfDict |-> [matched |-> FALSE], xmp |-> NoMatch ]

\* A receipt for the contents "docA" with the given core fields and chain hash.
ReceiptWith(id, timestamp, level, chain) ==
  ReceiptOf([ document_id |-> id, hash |-> Str(sha256("docA")),
              timestamp |-> timestamp, governance_level |-> level,
              prev_hash |-> Str(GENESIS_HASH), isp_profile |-> Str("isp-bank-01"),
              chain |-> chain ])

\* The documents the two calls are given, one per way verifyDocument ends:
\* unreadable, no metadata, verified, hash mismatch, invalid receipt (three
\* validation errors), broken chain link.
ConcurrentDocuments ==
  { [ readable |-> FALSE, readError |-> "ENOENT: no such file or directory",
      bytes |-> "docA", ext |-> ".pdf", envelope |-> NoMatch, inline |-> NoMatch,
      pdfDict |-> [matched |-> FALSE], xmp |-> NoMatch ],
    [ readable |-> TRUE, readError |-> "", bytes |-> "docA", ext |-> ".txt",
      envelope |-> NoMatch, inline |-> NoMatch, pdfDict |-> [matched |-> FALSE],
      xmp |-> NoMatch ],
    EnvelopeDocument("docA", ReceiptWith(Str("doc-1"), Str("2026-01-19T12:00:00Z"),
                                         Str("HIGH"), "issued")),
    EnvelopeDocument("docB", ReceiptWith(Str("doc-1"), Str("2026-01-19T12:00:00Z"),
                                         Str("HIGH"), "issued")),
    EnvelopeDocument("docA", ReceiptWith(Undefined, Str("not-a-date"),
                                         Str("ULTRA"), "issued")),
    EnvelopeDocument("docA", ReceiptWith(Str("doc-1"), Str("2026-01-19T12:00:00Z"),
                                         Str("LOW"), "wrong")) }

\* One client, no call made yet, nothing allocated.
InitConcurrent ==
  /\ strictMode \in BOOLEAN
  /\ pc = [c \in ConcurrentCalls |-> "idle"]
  /\ op = [c \in ConcurrentCalls |-> "none"]
  /\ input = [c \in ConcurrentCalls |-> NoInput]
  /\ result = [c \in ConcurrentCalls |-> NoResult]
  /\ metadata = [c \in ConcurrentCalls |-> None]
  /\ heap = << >>
  /\ fnArgs = NoCall
  /\ fnResult = FALSE

\* verifyDocument(filePath) up to `await fs.readFile(absolutePath)`: `result`
\* is bound to the object _createEmptyResult allocates.
ConcurrentVerifyDocumentCall(c) ==
  /\ pc[c] = "idle"
  /\ pc' = [pc EXCEPT ![c] = "readFile"]
  /\ op' = [op EXCEPT ![c] = "verifyDocument"]
  /\ \E doc \in ConcurrentDocuments : input' = [input EXCEPT ![c] = doc]
  /\ LET allocated == allocateResult(heap)
     IN /\ heap' = allocated.heap
        /\ result' = [result EXCEPT ![c] = allocated.ref]
  /\ UNCHANGED <<strictMode, metadata, fnArgs, fnResult>>

\* The read fails: the catch block runs on the call's result and the call
\* returns it.
ConcurrentReadFileRejected(c) ==
  /\ pc[c] = "readFile"
  /\ ~input[c].readable
  /\ \E now \in Times :
       LET done == settle(readFile(Load(heap, result[c]), input[c]), now)
       IN /\ pc' = [pc EXCEPT ![c] = done.pc]
          /\ heap' = Store(heap, result[c], done.result)
  /\ UNCHANGED <<strictMode, op, input, result, metadata, fnArgs, fnResult>>

\* The read succeeds: the hash is stored in the call's result and
\* _extractMetadata runs up to the `await` on its promise.
ConcurrentReadFileResolved(c) ==
  /\ pc[c] = "readFile"
  /\ input[c].readable
  /\ pc' = [pc EXCEPT ![c] = "extractMetadata"]
  /\ heap' = Store(heap, result[c],
                   [Load(heap, result[c]) EXCEPT
                      !.documentHash = Str(sha256(input[c].bytes))])
  /\ metadata' = [metadata EXCEPT ![c] = _extractMetadata(input[c])]
  /\ UNCHANGED <<strictMode, op, input, result, fnArgs, fnResult>>

\* verifyDocument from the metadata to its return, on the call's result.
ConcurrentVerifyDocumentFinish(c) ==
  /\ pc[c] = "extractMetadata"
  /\ \E now \in Times :
       LET done == settle(verifyDocumentAfterExtract(Load(heap, result[c]),
                                                     metadata[c], strictMode), now)
       IN /\ pc' = [pc EXCEPT ![c] = done.pc]
          /\ heap' = Store(heap, result[c], done.result)
  /\ UNCHANGED <<strictMode, op, input, result, metadata, fnArgs, fnResult>>

NextConcurrent ==
  \/ \E c \in ConcurrentCalls : ConcurrentVerifyDocumentCall(c)
  \/ \E c \in ConcurrentCalls : ConcurrentReadFileRejected(c)
  \/ \E c \in ConcurrentCalls : ConcurrentReadFileResolved(c)
  \/ \E c \in ConcurrentCalls : ConcurrentVerifyDocumentFinish(c)

SpecConcurrent == InitConcurrent /\ [][NextConcurrent]_vars

(* ------------------------------------------------------------------ *)
(* C20                                                                 *)
(* ------------------------------------------------------------------ *)

\* verifyDocument(doc) on a client of the given mode with no other call in
\* flight: the steps of the call one after the other on its own result.
AloneResult(doc, strict) ==
  IF ~doc.readable
    THEN settle(readFile(_createEmptyResult, doc), 1).result
    ELSE settle(verifyDocumentAfterExtract(
                  [_createEmptyResult EXCEPT
                     !.documentHash = Str(sha256(doc.bytes))],
                  _extractMetadata(doc), strict), 1).result

SameOutcome(r, alone) ==
  /\ r.status = alone.status
  /\ r.verified = alone.verified
  /\ r.documentHash = alone.documentHash
  /\ r.virtueReceipt = alone.virtueReceipt
  /\ r.chainIntact = alone.chainIntact
  /\ r.errors = alone.errors
  /\ r.warnings = alone.warnings

\* The objects a call's result is made of: the result object and its lists.
ObjectsOf(c) ==
  IF result[c] = NoResult THEN {}
  ELSE {result[c], heap[result[c]].fields.errors, heap[result[c]].fields.warnings}

\* C20: with two verifyDocument calls on one client interleaved at their
\* await points in any order, a call that has returned holds, and keeps
\* holding while the other call runs, the status, verified, documentHash,
\* receipt, chainIntact, errors and warnings it returns when run alone; and
\* the result object, the errors list and the warnings list of one call are
\* objects different from those of the other call.
C20_CallsIndependent ==
  /\ \A c \in ConcurrentCalls :
       pc[c] = "returned" =>
         SameOutcome(Load(heap, result[c]), AloneResult(input[c], strictMode))
  /\ \A c, d \in ConcurrentCalls :
       c # d => ObjectsOf(c) \cap ObjectsOf(d) = {}
  /\ \A c \in ConcurrentCalls :
       result[c] # NoResult => Cardinality(ObjectsOf(c)) = 3

\* call2 was started first and is still awaiting its metadata; call1 started
\* after it, has returned INVALID with its three validation errors, and
\* call2's lists are empty.
C20_Witness ==
  /\ pc["call1"] = "returned"
  /\ pc["call2"] = "extractMetadata"
  /\ result["call2"] # NoResult
  /\ result["call2"] < result["call1"]
  /\ Load(heap, result["call1"]).status = "INVALID"
  /\ Len(Load(heap, result["call1"]).errors) = 3
  /\ Load(heap, result["call2"]).errors = << >>
  /\ Load(heap, result["call2"]).documentHash = Str(sha256("docB"))

(* ------------------------------------------------------------------ *)
(* C21                                                                 *)
(* ------------------------------------------------------------------ *)

\* The elements of a sequence.
Range(seq) == {seq[i] : i \in 1..Len(seq)}

\* The call got as far as its checks with a receipt object and a digest.
ChecksRan(c) == Returned(c) /\ HasReceipt(c) /\ HasDigest(c)

\* C21: the checks of verifyDocument and verifyBuffer run in the order
\* structural validation, hash comparison, chain check, and the first that
\* fails ends the call.  A receipt with structural errors yields INVALID with
\* the validator's errors and nothing else, whatever its hash and chain
\* fields; a structurally valid receipt whose hash differs from the digest
\* yields INVALID with exactly the hash-mismatch error, whatever its chain
\* fields; in both cases chainIntact is false and there is no warning.
C21_ChecksInOrder ==
  \A c \in Calls :
    ChecksRan(c) =>
      /\ ~StructurallyValid(ReceiptOfCall(c)) =>
           /\ result[c].status = "INVALID"
           /\ ~result[c].verified
           /\ result[c].errors # << >>
           /\ Range(result[c].errors) = ExpectedValidationErrors(ReceiptOfCall(c))
           /\ ~InSeq(HashMismatchError, result[c].errors)
           /\ ~InSeq(ChainError, result[c].errors)
           /\ ~result[c].chainIntact
           /\ result[c].warnings = << >>
      /\ (StructurallyValid(ReceiptOfCall(c))
            /\ Get(ReceiptOfCall(c), "hash") # Str(DigestOf(c))) =>
           /\ result[c].status = "INVALID"
           /\ ~result[c].verified
           /\ result[c].errors = << HashMismatchError >>
           /\ ~result[c].chainIntact
           /\ result[c].warnings = << >>

\* A receipt that fails all three checks: a malformed timestamp, a hash that
\* is not the document's digest, a wrong chain hash; only the validator's
\* error is reported.
C21_Witness ==
  \E c \in Calls :
    /\ ChecksRan(c) /\ op[c] = "verifyDocument"
    /\ ~StructurallyValid(ReceiptOfCall(c))
    /\ result[c].errors = << "Invalid timestamp format" >>
    /\ Get(ReceiptOfCall(c), "hash") # Str(DigestOf(c))
    /\ BrokenChainLink(ReceiptOfCall(c))
    /\ result[c].status = "INVALID"

(* ------------------------------------------------------------------ *)
(* C22                                                                 *)
(* ------------------------------------------------------------------ *)

\* What verifyDocument returns on a readable document of the given bytes in
\* which extraction yields `receipt`.
verifyDocumentWith(bytes, receipt, strict) ==
  settle(verifyDocumentAfterExtract(
           [_createEmptyResult EXCEPT !.documentHash = Str(sha256(bytes))],
           Some([virtueReceipt |-> receipt]), strict), 1).result

\* C22: for the same document bytes, the same receipt and the same mode,
\* verifyBuffer returns the status, verified flag, chainIntact, errors and
\* warnings verifyDocument returns when extraction yields that receipt; in
\* particular a failed chain check in strict mode yields INVALID from both.
C22_SameStateMachine ==
  \A c \in Calls :
    (ChecksRan(c) /\ op[c] = "verifyBuffer") =>
      LET other == verifyDocumentWith(input[c].buffer.bytes, input[c].receipt,
                                      strictMode)
      IN /\ result[c].status = other.status
         /\ result[c].verified = other.verified
         /\ result[c].chainIntact = other.chainIntact
         /\ result[c].errors = other.errors
         /\ result[c].warnings = other.warnings

\* The two agree on every receipt whose chain link is not broken.
C22_AgreeUnlessChainBroken ==
  \A c \in Calls :
    (ChecksRan(c) /\ op[c] = "verifyBuffer"
       /\ _verifyChainIntegrity(input[c].receipt)) =>
      LET other == verifyDocumentWith(input[c].buffer.bytes, input[c].receipt,
                                      strictMode)
      IN /\ result[c].status = other.status
         /\ result[c].verified = other.verified
         /\ result[c].chainIntact = other.chainIntact
         /\ result[c].errors = other.errors
         /\ result[c].warnings = other.warnings

(* ------------------------------------------------------------------ *)
(* C23                                                                 *)
(* ------------------------------------------------------------------ *)

ChainWarning == "Chain verification failed but document hash valid"

\* C23 (as stated): a result with verified = true carries no error strings.
C23_AsStated ==
  \A c \in Calls :
    (Returned(c) /\ result[c].verified) => result[c].errors = << >>

\* C23 (amended): a result with verified = true carries no error strings,
\* except the result of verifyDocument in lenient mode on a receipt whose
\* chain check failed: the failure is recorded as an error and as a warning,
\* so that result carries exactly the chain-integrity error, exactly the
\* chain warning, and chainIntact false.  In every other verified result the
\* errors list is empty.
C23_VerifiedErrors ==
  \A c \in Calls :
    (Returned(c) /\ result[c].verified) =>
      IF op[c] = "verifyDocument" /\ ~strictMode
           /\ BrokenChainLink(ReceiptOfCall(c))
        THEN /\ result[c].errors = << ChainError >>
             /\ result[c].warnings = << ChainWarning >>
             /\ ~result[c].chainIntact
        ELSE /\ result[c].errors = << >>
             /\ result[c].warnings = << >>

\* A verified result that carries the chain-integrity error.
C23_Witness ==
  \E c \in Calls :
    /\ Returned(c) /\ op[c] = "verifyDocument" /\ ~strictMode
    /\ result[c].verified /\ result[c].status = "VERIFIED"
    /\ result[c].errors = << ChainError >>
    /\ result[c].warnings = << ChainWarning >>

(* ------------------------------------------------------------------ *)
(* C24 (under SpecHttpClient)                                          *)
(* ------------------------------------------------------------------ *)

\* C24: verifyFromFile digests the file before anything is sent.  When the
\* file cannot be read the call rejects with the file-system error itself
\* (code ENOENT, not a WindiHttpError) and no request is sent; otherwise the
\* one request sent is POST /verify, whose document_hash is "sha256:" and
\* the digest of the file and whose proof_level is the caller's, or L2 when
\* the caller gives none.
C24_DigestBeforeRequest ==
  fnArgs.fn = "verifyFromFile" =>
    LET content == ContentOf("verifyFromFile", fnArgs.args)
    IN IF content = None
         THEN /\ fnResult.request = None
              /\ fnResult.outcome.t = "rejected"
              /\ fnResult.outcome.error.name # "WindiHttpError"
              /\ fnResult.outcome.error.code = "ENOENT"
         ELSE /\ fnResult.request # None
              /\ fnResult.request[1].method = "POST"
              /\ fnResult.request[1].url = "/verify"
              /\ Get(fnResult.request[1].body, "document_hash")
                   = Str("sha256:" \o sha256(content[1]))
              /\ Get(fnResult.request[1].body, "proof_level")
                   = IF fnArgs.args.proofLevel = Undefined THEN Str("L2")
                     ELSE fnArgs.args.proofLevel

\* The file does not exist: the call has rejected with ENOENT, nothing sent.
C24_Witness ==
  /\ fnArgs.fn = "verifyFromFile"
  /\ fnArgs.args.source = Str("/in/missing.pdf")
  /\ fnArgs.args.proofLevel = Undefined
  /\ fnResult.request = None
  /\ fnResult.outcome = [t |-> "rejected", error |-> ENOENT]

(* ------------------------------------------------------------------ *)
(* The policy decision of the verification demo                        *)
(* ------------------------------------------------------------------ *)

\* Array.prototype.includes on an array value.
includes(arr, x) == \E i \in 1..Len(arr.a) : arr.a[i] = x

\* simpleDecision({ paymentAmountEur, verify }): the first rule that applies.
simpleDecision(ctx) ==
  LET risk_flags == Get(ctx.verify, "risk_flags")
  IN IF risk_flags.t = "array" /\ includes(risk_flags, Str("IBAN_MISMATCH"))
       THEN [action |-> "BLOCK", reason |-> "IBAN_MISMATCH"]
     ELSE IF ctx.paymentAmountEur >= 50000 /\ Get(ctx.verify, "trust_level") # Str("L3")
       THEN [action |-> "HOLD", reason |-> "HIGH_VALUE_REQUIRES_L3"]
     ELSE IF Get(ctx.verify, "trust_level") = Str("L1")
       THEN [action |-> "HOLD", reason |-> "OFFLINE_ONLY"]
     ELSE IF Get(ctx.verify, "verdict") = Str("INVALID")
               \/ Get(ctx.verify, "integrity") = Str("MODIFIED")
       THEN [action |-> "BLOCK", reason |-> "TAMPERED"]
     ELSE IF Get(ctx.verify, "verdict") = Str("SUSPECT")
       THEN [action |-> "HOLD", reason |-> "SUSPECT_DOCUMENT"]
     ELSE [action |-> "ALLOW", reason |-> "OK"]

\* Payment amounts on both sides of the high-value threshold.
PaymentAmounts == {0, 49999, 50000, 75000}

\* The verification responses of the API contract, with and without risk flags.
VerifyResponses ==
  { Obj(SelectSeq(<< Member("verdict", Str(verdict)),
                     Member("integrity", Str(integrity)),
                     Member("trust_level", Str(trust)),
                     Member("risk_flags", flags) >>,
                  LAMBDA m : m.v # Undefined)) :
      verdict \in {"VALID", "SUSPECT", "INVALID"},
      integrity \in {"INTACT", "MODIFIED", "UNKNOWN"},
      trust \in {"L1", "L2", "L3"},
      flags \in { Undefined, Arr(<< >>), Arr(<< Str("IBAN_MISMATCH") >>),
                  Arr(<< Str("ISSUER_UNKNOWN") >>),
                  Arr(<< Str("ISSUER_UNKNOWN"), Str("IBAN_MISMATCH") >>) } }

\* simpleDecision({ paymentAmountEur, verify })
CallSimpleDecision ==
  /\ fnArgs.fn = "none"
  /\ \E amount \in PaymentAmounts, response \in VerifyResponses :
       /\ fnArgs' = [fn |-> "simpleDecision",
                     ctx |-> [paymentAmountEur |-> amount, verify |-> response]]
       /\ fnResult' = simpleDecision([paymentAmountEur |-> amount, verify |-> response])
  /\ UNCHANGED <<heap, strictMode, pc, op, input, result, metadata>>

NextDecision == CallSimpleDecision

SpecDecision == InitHashUtils /\ [][NextDecision]_vars

(* ------------------------------------------------------------------ *)
(* C25 (under SpecDecision)                                            *)
(* ------------------------------------------------------------------ *)

\* The verification says the document was tampered with.
Tampered(response) ==
  \/ Get(response, "verdict") = Str("INVALID")
  \/ Get(response, "integrity") = Str("MODIFIED")

\* C25: for every payment amount, trust level and set of risk flags, a
\* verification with verdict INVALID or integrity MODIFIED yields the action
\* BLOCK.
C25_TamperedBlocked ==
  (fnArgs.fn = "simpleDecision" /\ Tampered(fnArgs.ctx.verify)) =>
    fnResult.action = "BLOCK"

\* A tampered document is blocked or held, never allowed; it is blocked when
\* the trust level is L3, or L2 with an amount below the threshold.
C25_TamperedNeverAllowed ==
  (fnArgs.fn = "simpleDecision" /\ Tampered(fnArgs.ctx.verify)) =>
    /\ fnResult.action \in {"BLOCK", "HOLD"}
    /\ (\/ Get(fnArgs.ctx.verify, "trust_level") = Str("L3")
        \/ /\ Get(fnArgs.ctx.verify, "trust_level") = Str("L2")
           /\ fnArgs.ctx.paymentAmountEur < 50000)
         => fnResult.action = "BLOCK"

(* ------------------------------------------------------------------ *)
(* C26                                                                 *)
(* ------------------------------------------------------------------ *)

\* C26: in every result verifyDocument and verifyBuffer return, verified is
\* true exactly when status is VERIFIED; governanceLevel is non-null only
\* when status is VERIFIED; and a VERIFIED result has the governanceLevel of
\* its receipt's governance_level, which is HIGH, MEDIUM or LOW, the
\* ispProfile of its receipt's isp_profile, and a documentHash equal to its
\* receipt's hash.
C26_ResultConsistent ==
  \A c \in Calls :
    Returned(c) =>
      /\ result[c].verified <=> result[c].status = "VERIFIED"
      /\ result[c].governanceLevel # Null => result[c].status = "VERIFIED"
      /\ result[c].status = "VERIFIED" =>
           /\ HasReceipt(c)
           /\ result[c].governanceLevel = Get(ReceiptOfCall(c), "governance_level")
           /\ result[c].governanceLevel \in {Str("HIGH"), Str("MEDIUM"), Str("LOW")}
           /\ result[c].ispProfile = Get(ReceiptOfCall(c), "isp_profile")
           /\ result[c].documentHash = Get(ReceiptOfCall(c), "hash")
           /\ result[c].virtueReceipt = ReceiptOfCall(c)

\* verifyBuffer has verified a LOW receipt that names an institutional profile.
C26_Witness ==
  \E c \in Calls :
    /\ Returned(c) /\ op[c] = "verifyBuffer"
    /\ result[c].verified /\ result[c].status = "VERIFIED"
    /\ result[c].governanceLevel = Str("LOW")
    /\ result[c].ispProfile = Str("isp-bank-01")
    /\ result[c].documentHash = Str(sha256("docB"))

(* ------------------------------------------------------------------ *)
(* C27                                                                 *)
(* ------------------------------------------------------------------ *)

\* The receipt carries one of prev_hash and chain_hash and not the other.
ExactlyOneChainField(receipt) ==
  Present(receipt, "prev_hash") # Present(receipt, "chain_hash")

\* C27: the chain check is made only when prev_hash and chain_hash are both
\* present.  For a receipt carrying exactly one of them verifyReceipt reports
\* chainIntact true; and when such a receipt is structurally valid and its
\* hash is the document's digest, verifyDocument and verifyBuffer return
\* VERIFIED with chainIntact true and no error, in strict mode as in lenient
\* mode, and verifyReceipt reports it valid.
C27_OneChainFieldPasses ==
  \A c \in Calls :
    (ChecksRan(c) /\ ExactlyOneChainField(ReceiptOfCall(c))) =>
      /\ ~verifyReceipt(ReceiptOfCall(c)).thrown
      /\ verifyReceipt(ReceiptOfCall(c)).chainIntact
      /\ MatchingReceipt(c) =>
           /\ result[c].status = "VERIFIED"
           /\ result[c].verified
           /\ result[c].chainIntact
           /\ result[c].errors = << >>
           /\ result[c].warnings = << >>
           /\ verifyReceipt(ReceiptOfCall(c)).valid

\* Strict mode, a matching receipt with a chain_hash and no prev_hash.
C27_Witness ==
  \E c \in Calls :
    /\ ChecksRan(c) /\ op[c] = "verifyDocument" /\ strictMode
    /\ MatchingReceipt(c)
    /\ Present(ReceiptOfCall(c), "chain_hash")
    /\ ~HasKey(ReceiptOfCall(c), "prev_hash")
    /\ result[c].status = "VERIFIED"
    /\ result[c].chainIntact
    /\ verifyReceipt(ReceiptOfCall(c)).valid

(* ------------------------------------------------------------------ *)
(* C28                                                                 *)
(* ------------------------------------------------------------------ *)

HashFormatError == "Invalid hash format (expected SHA-256)"

\* The receipt's hash is 64 hex characters, some of them uppercase.
UppercaseHash(receipt) ==
  /\ Present(receipt, "hash")
  /\ Get(receipt, "hash").s \in {toUpperCase(h) : h \in LowerHexDigests}

\* C28 (as stated): a receipt whose hash contains an uppercase hex digit
\* passes the validator's format check and always ends INVALID with the
\* hash-mismatch error.
C28_AsStated ==
  \A c \in Calls :
    (ChecksRan(c) /\ UppercaseHash(ReceiptOfCall(c))) =>
      /\ ~InSeq(HashFormatError, _validateVirtueReceipt(ReceiptOfCall(c)))
      /\ result[c].status = "INVALID"
      /\ InSeq(HashMismatchError, result[c].errors)

\* C28 (amended): a receipt whose hash contains an uppercase hex digit passes
\* the validator's case-insensitive format check but is never VERIFIED: it
\* always ends INVALID, even when its hash is the uppercase spelling of the
\* document's digest.  When the receipt is otherwise structurally valid the
\* result carries exactly the hash-mismatch error; when another field is
\* missing or malformed it carries the validator's errors instead.
C28_UppercaseNeverVerified ==
  \A c \in Calls :
    (ChecksRan(c) /\ UppercaseHash(ReceiptOfCall(c))) =>
      /\ ~InSeq(HashFormatError, _validateVirtueReceipt(ReceiptOfCall(c)))
      /\ ~InSeq(HashFormatError, result[c].errors)
      /\ result[c].status = "INVALID"
      /\ ~result[c].verified
      /\ IF StructurallyValid(ReceiptOfCall(c))
           THEN result[c].errors = << HashMismatchError >>
           ELSE /\ result[c].errors = _validateVirtueReceipt(ReceiptOfCall(c))
                /\ ~InSeq(HashMismatchError, result[c].errors)

\* The receipt's hash is the document's digest written in uppercase.
C28_Witness ==
  \E c \in Calls :
    /\ ChecksRan(c) /\ op[c] = "verifyDocument"
    /\ Get(ReceiptOfCall(c), "hash") = Str(toUpperCase(DigestOf(c)))
    /\ StructurallyValid(ReceiptOfCall(c))
    /\ result[c].status = "INVALID"
    /\ result[c].errors = << HashMismatchError >>

(* ------------------------------------------------------------------ *)
(* C29                                                                 *)
(* ------------------------------------------------------------------ *)

\* The document's WINDI envelope parses as a JSON object that has neither a
\* virtue_receipt nor a virtueReceipt member.
EnvelopeWithoutReceipt(doc) ==
  /\ doc.envelope.matched
  /\ doc.envelope.json # None
  /\ doc.envelope.json[1].t = "object"
  /\ ~HasKey(doc.envelope.json[1], "virtue_receipt")
  /\ ~HasKey(doc.envelope.json[1], "virtueReceipt")

\* C29: when the document's envelope parses as a JSON object with neither a
\* virtue_receipt nor a virtueReceipt member, extraction returns metadata
\* whose receipt is undefined, whatever the later strategies would find, and
\* verifyDocument ends INVALID, not NO_GOVERNANCE, its only error being
\* 'Virtue Receipt is null or undefined'.
C29_EnvelopeWithoutReceipt ==
  \A c \in Calls :
    (op[c] = "verifyDocument" /\ input[c].readable
       /\ pc[c] \in {"extractMetadata", "returned"}
       /\ EnvelopeWithoutReceipt(input[c])) =>
      /\ metadata[c] = Some([virtueReceipt |-> Undefined])
      /\ Returned(c) =>
           /\ result[c].status = "INVALID"
           /\ ~result[c].verified
           /\ result[c].errors = << "Virtue Receipt is null or undefined" >>
           /\ result[c].warnings = << >>

\* A PDF whose envelope is an empty object while its inline receipt, its
\* /WINDI dictionary and its XMP element each hold a receipt.
C29_Witness ==
  \E c \in Calls :
    /\ Returned(c) /\ op[c] = "verifyDocument"
    /\ EnvelopeWithoutReceipt(input[c])
    /\ input[c].ext = ".pdf"
    /\ HoldsReceipt(input[c].inline)
    /\ input[c].pdfDict.matched /\ input[c].pdfDict.hasVirtueReceipt
    /\ input[c].pdfDict.json # None
    /\ HoldsReceipt(input[c].xmp)
    /\ result[c].status = "INVALID"
    /\ result[c].errors = << "Virtue Receipt is null or undefined" >>

(* ------------------------------------------------------------------ *)
(* verifyMerkleRoot on an odd leaf list and on its extension           *)
(* ------------------------------------------------------------------ *)

OddLeafLists ==
  UNION {[1..n -> Leaves] : n \in {m \in 3..MaxOddLeaves : m % 2 = 1}}

\* The roots of the odd leaf lists, and a string that is the root of none.
OddListRoots == {merkleReduce(hashes)[1] : hashes \in OddLeafLists} \cup {"not-a-root"}

\* verifyMerkleRoot(hashes, expectedRoot) on a leaf list of odd length
CallVerifyMerkleRootOdd ==
  /\ fnArgs.fn = "none"
  /\ \E hashes \in OddLeafLists, expectedRoot \in OddListRoots :
       /\ fnArgs' = [fn |-> "verifyMerkleRoot", hashes |-> hashes,
                     expectedRoot |-> expectedRoot, shorter |-> None]
       /\ fnResult' = verifyMerkleRoot(hashes, expectedRoot)
  /\ UNCHANGED <<heap, strictMode, pc, op, input, result, metadata>>

\* verifyMerkleRoot([...hashes, hashes[hashes.length - 1]], expectedRoot) after
\* the call on hashes, whose outcome is kept in `shorter`.
CallVerifyMerkleRootAppended ==
  /\ fnArgs.fn = "verifyMerkleRoot"
  /\ fnArgs.shorter = None
  /\ LET longer == Append(fnArgs.hashes, fnArgs.hashes[Len(fnArgs.hashes)])
     IN /\ fnArgs' = [fn |-> "verifyMerkleRoot", hashes |-> longer,
                      expectedRoot |-> fnArgs.expectedRoot,
                      shorter |-> Some([hashes |-> fnArgs.hashes,
                                        result |-> fnResult])]
        /\ fnResult' = verifyMerkleRoot(longer, fnArgs.expectedRoot)
  /\ UNCHANGED <<heap, strictMode, pc, op, input, result, metadata>>

NextMerkleAppend ==
  \/ CallVerifyMerkleRootOdd
  \/ CallVerifyMerkleRootAppended

SpecMerkleAppend == InitHashUtils /\ [][NextMerkleAppend]_vars

(* ------------------------------------------------------------------ *)
(* C30 (under SpecMerkleAppend)                                        *)
(* ------------------------------------------------------------------ *)

NonEmptyLeaves(hashes) == \A i \in 1..Len(hashes) : hashes[i] # ""

\* C30: for every leaf list L of odd length at least 3 with non-empty leaves
\* and every expected root r, verifyMerkleRoot(L, r) and verifyMerkleRoot of
\* L followed by its last leaf, r, are equal: the odd list and its extension
\* cannot be told apart.
C30_AppendedLastLeaf ==
  (fnArgs.fn = "verifyMerkleRoot" /\ fnArgs.shorter # None
     /\ NonEmptyLeaves(fnArgs.shorter[1].hashes)) =>
    /\ Len(fnArgs.shorter[1].hashes) % 2 = 1
    /\ Len(fnArgs.shorter[1].hashes) >= 3
    /\ Len(fnArgs.hashes) = Len(fnArgs.shorter[1].hashes) + 1
    /\ fnResult = fnArgs.shorter[1].result

\* The same for every leaf list of the model, empty leaves included.
C30_AppendedLastLeafAnyLeaves ==
  (fnArgs.fn = "verifyMerkleRoot" /\ fnArgs.shorter # None) =>
    fnResult = fnArgs.shorter[1].result

\* Five leaves and the six-leaf list ending in the fifth twice, both
\* accepted for the root of the five.
C30_Witness ==
  /\ fnArgs.fn = "verifyMerkleRoot"
  /\ fnArgs.shorter # None
  /\ fnArgs.hashes = << "x", "y", "y", "x", "y", "y" >>
  /\ fnArgs.shorter[1].hashes = << "x", "y", "y", "x", "y" >>
  /\ fnArgs.shorter[1].result
  /\ fnResult

====
